---- MODULE Spec2Model ----
(***************************************************************************)
(* A model of the data-quality stage of the real-estate scraping pipeline  *)
(* (src/src/utils/data_quality.py): DataQualityChecker.check_data_quality  *)
(* and DataQualityChecker.fix_common_issues over a tabular batch.          *)
(*                                                                         *)
(* Encoding of values.                                                     *)
(*   - A cell is <<>> when absent (None / NaN) and <<v>> when it holds v.  *)
(*   - Floats with one decimal (area, latitude, longitude) are held in     *)
(*     tenths: 35.5 is 355, the bound 5.0 is 50, 146.0 is 1460.            *)
(*   - Percentages and the quality score are held in hundredths: the       *)
(*     score 100.0 is 10000, the percentage 33.33 is 3333.                 *)
(*   - A DataFrame is [columns, index, rows]: the set of column names, the *)
(*     index labels (0-based, kept by row filters) and the rows, each a    *)
(*     function from the columns to cells.                                 *)
(***************************************************************************)
EXTENDS Integers, Sequences, FiniteSets, TLC

\* The quality checker: the batch, the caller's edits, the report and the
\* repaired batch.
VARIABLES df, edits, report, fixed

\* The text parsers: the raw string and what the called parser returned.
VARIABLES text, parsed

\* The column normalizer: the caller's batch and the calls made on it, in
\* order, each with the batch it was given as it was before and after the
\* call and the batch it returned.
VARIABLES batch, stages

\* The geocoding step of process_and_export: the batch, the apply_geocoding
\* flag, the addresses handed to the geocoder, the results it has returned
\* and are still to be applied, and how far the step has come.
VARIABLES listings, apply_geocoding, addresses_to_geocode, geocoding_results,
          step

\* RobotsChecker: the parser cache (self.parsers), the robots.txt requests
\* made so far with what each returned, the last call with its return value,
\* and the number of calls made.
VARIABLES parsers, fetched, answer, calls

\* BaseScraper.scrape_area: the max_pages argument, the loop variable, the
\* search results received so far with their pages, the properties
\* collected and the position of the call.
VARIABLES max_pages, page, results, all_properties, scrape_pc

\* The quality stage of DataExporter.process_and_export: the export_format
\* argument, the local df, the quality report, the rows written to the
\* export file, the returned dictionary and the position of the call.
VARIABLES export_format, export_df, quality_report, written, export_result,
          export_pc

checkerVars == <<df, edits, report, fixed>>

parserVars == <<text, parsed>>

normalizerVars == <<batch, stages>>

geocoderVars ==
    <<listings, apply_geocoding, addresses_to_geocode, geocoding_results, step>>

robotsVars == <<parsers, fetched, answer, calls>>

scraperVars == <<max_pages, page, results, all_properties, scrape_pc>>

exportVars ==
    <<export_format, export_df, quality_report, written, export_result,
      export_pc>>

vars ==
    <<checkerVars, parserVars, normalizerVars, geocoderVars, robotsVars,
      scraperVars, exportVars>>

\* The variables a call of the checker leaves alone.
notCheckerVars ==
    <<parserVars, normalizerVars, geocoderVars, robotsVars, scraperVars,
      exportVars>>

(* ------------------------------ bounds -------------------------------- *)

\* How many cells/rows of a scenario batch the caller may change before
\* handing the batch to the checker.
MaxEdits == 1

(* ------------------------------ cells --------------------------------- *)

NA == <<>>

P(v) == <<v>>

isna(cell) == cell = NA

notna(cell) == cell # NA

\* Comparisons of a cell with a number; a comparison with NaN/None is False.
CellLt(cell, bound) == notna(cell) /\ cell[1] < bound

CellGt(cell, bound) == notna(cell) /\ cell[1] > bound

CellGe(cell, bound) == notna(cell) /\ cell[1] >= bound

CellLe(cell, bound) == notna(cell) /\ cell[1] <= bound

Min(a, b) == IF a <= b THEN a ELSE b

Max(a, b) == IF a >= b THEN a ELSE b

len(frame) == Len(frame.rows)

\* The positions of 1..n that are in mask, in ascending order.
Positions(n, mask) ==
    LET f[k \in 0..n] ==
            IF k = 0 THEN <<>>
            ELSE IF k \in mask THEN Append(f[k - 1], k) ELSE f[k - 1]
    IN  f[n]

\* Boolean-mask row selection df[mask]: the rows at the positions in mask,
\* in order, with their index labels.
SelectRows(frame, mask) ==
    LET pos == Positions(len(frame), mask)
    IN  [columns |-> frame.columns,
         index   |-> [k \in 1..Len(pos) |-> frame.index[pos[k]]],
         rows    |-> [k \in 1..Len(pos) |-> frame.rows[pos[k]]]]

\* pd.DataFrame(data): a fresh frame with the default index 0..n-1.
DataFrame(cols, rows) ==
    [columns |-> cols,
     index   |-> [k \in 1..Len(rows) |-> k - 1],
     rows    |-> rows]

(* ------------------------ DataQualityChecker -------------------------- *)

\* self.validation_rules (area, latitude, longitude in tenths).
validation_rules ==
    [rent             |-> [min |-> 10000, max |-> 5000000, required |-> TRUE],
     area             |-> [min |-> 50,    max |-> 5000,    required |-> TRUE],
     floor_number     |-> [min |-> -3,    max |-> 100,     required |-> FALSE],
     station_distance |-> [min |-> 0,     max |-> 60,      required |-> FALSE],
     latitude         |-> [min |-> 240,   max |-> 460,     required |-> FALSE],
     longitude        |-> [min |-> 1220,  max |-> 1460,    required |-> FALSE]]

\* The rule table's columns in the order the dict is iterated.
RuleColumns ==
    <<"rent", "area", "floor_number", "station_distance", "latitude", "longitude">>

RuleColumnSet == {RuleColumns[k] : k \in 1..Len(RuleColumns)}

\* self.required_columns
required_columns ==
    <<"property_id", "site_name", "url", "title", "property_type", "city",
      "rent", "floor_plan", "area">>

RequiredColumnSet == {required_columns[k] : k \in 1..Len(required_columns)}

\* round(x, 2) of the percentage count / n * 100, in hundredths (round half
\* to even, as Python's round).
RoundPct(count, n) ==
    LET num == count * 10000
        q   == num \div n
        r   == num % n
    IN  IF 2 * r < n THEN q
        ELSE IF 2 * r > n THEN q + 1
        ELSE IF q % 2 = 0 THEN q ELSE q + 1

\* df[column].isna().sum()
MissingCount(frame, column) ==
    Cardinality({k \in 1..len(frame) : isna(frame.rows[k][column])})

\* _check_missing_values: an entry for every column with a missing cell.
CheckMissingValues(frame) ==
    LET missing_count == [c \in frame.columns |-> MissingCount(frame, c)]
        cols == {c \in frame.columns : missing_count[c] > 0}
    IN  [c \in cols |->
            [count      |-> missing_count[c],
             percentage |-> RoundPct(missing_count[c], len(frame))]]

\* row.get('property_id', 'N/A')
RowPropertyId(frame, k) ==
    IF "property_id" \in frame.columns
    THEN frame.rows[k]["property_id"]
    ELSE P("N/A")

\* One entry of a column's outlier list.
OutlierEntry(frame, column, k, kind, bound) ==
    [index       |-> frame.index[k],
     value       |-> frame.rows[k][column][1],
     issue       |-> [kind |-> kind, bound |-> bound],
     property_id |-> RowPropertyId(frame, k)]

\* The below-minimum rows with the bound itself counted as below.
BelowMinInclusive(frame, column) ==
    LET rules == validation_rules[column]
        pos == Positions(len(frame),
                    {k \in 1..len(frame) : CellLe(frame.rows[k][column], rules.min)})
    IN  [j \in 1..Len(pos) |->
            OutlierEntry(frame, column, pos[j], "Below minimum", rules.min)]

\* df[df[column] < rules['min']] as outlier entries, in row order.
BelowMin(frame, column) ==
    LET rules == validation_rules[column]
        pos == Positions(len(frame),
                    {k \in 1..len(frame) : CellLt(frame.rows[k][column], rules.min)})
    IN  [j \in 1..Len(pos) |->
            OutlierEntry(frame, column, pos[j], "Below minimum", rules.min)]

\* df[df[column] > rules['max']] as outlier entries, in row order.
AboveMax(frame, column) ==
    LET rules == validation_rules[column]
        pos == Positions(len(frame),
                    {k \in 1..len(frame) : CellGt(frame.rows[k][column], rules.max)})
    IN  [j \in 1..Len(pos) |->
            OutlierEntry(frame, column, pos[j], "Above maximum", rules.max)]

\* column_outliers with the above-maximum rows put first.
ColumnOutliersAboveFirst(frame, column) ==
    AboveMax(frame, column) \o BelowMin(frame, column)

\* column_outliers before the cut: the below-minimum rows, then the
\* above-maximum rows.
ColumnOutliers(frame, column) == BelowMin(frame, column) \o AboveMax(frame, column)

\* column_outliers[:10]
OutlierCap == 10

\* _check_outliers: an entry for every rule-table column of the frame whose
\* list is not empty, cut to its first OutlierCap entries.
CheckOutliers(frame) ==
    LET column_outliers ==
            [c \in RuleColumnSet \cap frame.columns |-> ColumnOutliers(frame, c)]
        cols == {c \in RuleColumnSet \cap frame.columns :
                    Len(column_outliers[c]) > 0}
    IN  [c \in cols |->
            SubSeq(column_outliers[c], 1,
                   Min(OutlierCap, Len(column_outliers[c])))]

\* df.duplicated(subset=subset, keep=False) at row k: another row agrees with
\* row k on every column of subset (absent cells agree with absent cells).
Duplicated(frame, subset, k) ==
    \E j \in 1..len(frame) :
        /\ j # k
        /\ \A c \in subset : frame.rows[j][c] = frame.rows[k][c]

\* dup[column].value_counts().head(5).to_dict(): the absent value is not
\* counted; the five most frequent values with their counts.
ValueCountsHead(frame, column) ==
    LET vals == {frame.rows[k][column] : k \in 1..len(frame)} \ {NA}
        cnt(v) == Cardinality({k \in 1..len(frame) : frame.rows[k][column] = v})
        top == IF Cardinality(vals) <= 5 THEN vals
               ELSE CHOOSE S \in SUBSET vals :
                        /\ Cardinality(S) = 5
                        /\ \A a \in S : \A b \in vals \ S : cnt(a) >= cnt(b)
    IN  [v \in {cell[1] : cell \in top} |-> cnt(P(v))]

PotentialKey == {"address", "floor_plan", "rent"}

\* _check_duplicates
CheckDuplicates(frame) ==
    LET dupRows(subset) ==
            SelectRows(frame, {k \in 1..len(frame) : Duplicated(frame, subset, k)})
        ids  == IF "property_id" \in frame.columns
                THEN dupRows({"property_id"}) ELSE DataFrame({}, <<>>)
        urls == IF "url" \in frame.columns
                THEN dupRows({"url"}) ELSE DataFrame({}, <<>>)
        pots == IF PotentialKey \subseteq frame.columns
                THEN dupRows(PotentialKey) ELSE DataFrame({}, <<>>)
        keys == (IF len(ids) > 0 THEN {"property_id"} ELSE {})
                \cup (IF len(urls) > 0 THEN {"url"} ELSE {})
                \cup (IF len(pots) > 0 THEN {"potential_duplicates"} ELSE {})
    IN  [key \in keys |->
            CASE key = "property_id" ->
                    [count |-> len(ids),
                     examples |-> ValueCountsHead(ids, "property_id")]
              [] key = "url" ->
                    [count |-> len(urls),
                     examples |-> ValueCountsHead(urls, "url")]
              [] OTHER ->
                    [count |-> len(pots),
                     percentage |-> RoundPct(len(pots), len(frame))]]

\* _generate_summary: the record count, the columns and, for every rule-table
\* (numeric) column with a value, its minimum and maximum.  The mean, median
\* and standard deviation and the categorical frequency tables are reported
\* next to these and are read by no other step.
GenerateSummary(frame) ==
    LET vals(c) == {frame.rows[k][c][1] :
                        k \in {i \in 1..len(frame) : notna(frame.rows[i][c])}}
        num == {c \in RuleColumnSet \cap frame.columns : vals(c) # {}}
    IN  [total_records |-> len(frame),
         columns       |-> frame.columns,
         numeric_stats |->
            [c \in num |->
                [min |-> CHOOSE v \in vals(c) : \A w \in vals(c) : v <= w,
                 max |-> CHOOSE v \in vals(c) : \A w \in vals(c) : v >= w]]]

\* The deduction for missing values in required fields, accumulated over
\* self.required_columns (hundredths of a point).
MissingPenalty(missing_values) ==
    LET f[k \in 0..Len(required_columns)] ==
            IF k = 0 THEN 0
            ELSE IF required_columns[k] \in DOMAIN missing_values
                 THEN f[k - 1]
                      + Min(1000, missing_values[required_columns[k]].percentage)
                 ELSE f[k - 1]
    IN  f[Len(required_columns)]

\* The outlier deduction at its cap whenever a column has outliers.
OutlierPenaltyAtCap(outliers) == IF DOMAIN outliers = {} THEN 0 ELSE 2000

\* The outlier deduction counting the reported rows instead of the columns.
OutlierPenaltyPerRow(outliers) ==
    LET n[S \in SUBSET DOMAIN outliers] ==
            IF S = {} THEN 0
            ELSE LET c == CHOOSE x \in S : TRUE
                 IN  Len(outliers[c]) + n[S \ {c}]
    IN  Min(2000, n[DOMAIN outliers] * 200)

\* outlier_penalty = min(20, len(report['outliers']) * 2)
OutlierPenalty(outliers) == Min(2000, Cardinality(DOMAIN outliers) * 200)

\* The deduction for duplicate property ids and urls.
DuplicatePenalty(duplicates) ==
    (IF "property_id" \in DOMAIN duplicates THEN 1000 ELSE 0)
    + (IF "url" \in DOMAIN duplicates THEN 500 ELSE 0)

\* The score with ten points deducted for every required column the batch
\* lacks.
CalculateQualityScoreChargesAbsent(rep) ==
    LET absent == IF "missing_columns" \in DOMAIN rep.validation_errors
                  THEN Len(rep.validation_errors.missing_columns) ELSE 0
        score == 10000 - MissingPenalty(rep.missing_values)
                       - OutlierPenalty(rep.outliers)
                       - DuplicatePenalty(rep.duplicates)
                       - 1000 * absent
    IN  Max(0, Min(10000, score))

\* The score with the outlier deduction added instead of subtracted.
CalculateQualityScoreAddsOutliers(rep) ==
    LET score == 10000 - MissingPenalty(rep.missing_values)
                       + OutlierPenalty(rep.outliers)
                       - DuplicatePenalty(rep.duplicates)
    IN  Max(0, Min(10000, score))

\* The score without the final clamp.
CalculateQualityScoreUnclamped(rep) ==
    10000 - MissingPenalty(rep.missing_values)
          - OutlierPenalty(rep.outliers)
          - DuplicatePenalty(rep.duplicates)

\* _calculate_quality_score (hundredths of a point).
CalculateQualityScore(rep) ==
    LET score == 10000 - MissingPenalty(rep.missing_values)
                       - OutlierPenalty(rep.outliers)
                       - DuplicatePenalty(rep.duplicates)
    IN  Max(0, Min(10000, score))

\* Every required column, lacking or not.
MissingColsAreAllRequired(frame) == required_columns

\* The required columns the frame lacks, in required_columns order.
MissingCols(frame) ==
    LET pos == Positions(Len(required_columns),
                    {k \in 1..Len(required_columns) :
                        required_columns[k] \notin frame.columns})
    IN  [j \in 1..Len(pos) |-> required_columns[pos[j]]]

\* check_data_quality
check_data_quality(frame) ==
    LET partial ==
            [total_records     |-> len(frame),
             validation_errors |->
                IF \E c \in RequiredColumnSet : c \notin frame.columns
                THEN [missing_columns |-> MissingCols(frame)]
                ELSE <<>>,
             missing_values    |-> CheckMissingValues(frame),
             outliers          |-> CheckOutliers(frame),
             duplicates        |-> CheckDuplicates(frame),
             summary           |-> GenerateSummary(frame)]
    IN  [total_records     |-> partial.total_records,
         validation_errors |-> partial.validation_errors,
         missing_values    |-> partial.missing_values,
         outliers          |-> partial.outliers,
         duplicates        |-> partial.duplicates,
         summary           |-> partial.summary,
         quality_score     |-> CalculateQualityScore(partial)]

\* drop_duplicates on the property_id column alone.
drop_duplicates_by_id(frame) ==
    SelectRows(frame,
        {k \in 1..len(frame) :
            ~ \E j \in 1..(k - 1) :
                /\ "property_id" \in frame.columns
                /\ frame.rows[j]["property_id"] = frame.rows[k]["property_id"]})

\* df.drop_duplicates(): a row is dropped when an earlier row equals it in
\* every column.
drop_duplicates(frame) ==
    SelectRows(frame,
        {k \in 1..len(frame) :
            ~ \E j \in 1..(k - 1) : frame.rows[j] = frame.rows[k]})

\* The loop left out: rows with missing required values stay.
KeepMissingRequired(frame) == frame

\* The loop "df = df[df[col].notna()]" over the required columns the frame has.
DropMissingRequired(frame) ==
    SelectRows(frame,
        {k \in 1..len(frame) :
            \A c \in RequiredColumnSet \cap frame.columns :
                notna(frame.rows[k][c])})

\* clip with the upper bound forgotten.
clip_lower_only(cell, lower, upper) ==
    IF isna(cell) THEN cell ELSE P(Max(lower, cell[1]))

\* Series.clip(lower, upper) on one cell; an absent cell stays absent.
clip(cell, lower, upper) ==
    IF isna(cell) THEN cell ELSE P(Max(lower, Min(upper, cell[1])))

\* The loop that caps every rule-table column of the frame.
ClipOutliers(frame) ==
    [columns |-> frame.columns,
     index   |-> frame.index,
     rows    |-> [k \in 1..len(frame) |->
                    [c \in frame.columns |->
                        IF c \in RuleColumnSet
                        THEN clip(frame.rows[k][c], validation_rules[c].min,
                                  validation_rules[c].max)
                        ELSE frame.rows[k][c]]]]

\* valid_coords at row k
ValidCoords(frame, k) ==
    /\ CellGe(frame.rows[k]["latitude"], 240)
    /\ CellLe(frame.rows[k]["latitude"], 460)
    /\ CellGe(frame.rows[k]["longitude"], 1220)
    /\ CellLe(frame.rows[k]["longitude"], 1460)

\* The removal keeping only the rows whose coordinates compare as valid.
DropInvalidCoordsStrict(frame) ==
    IF {"latitude", "longitude"} \subseteq frame.columns
    THEN SelectRows(frame, {k \in 1..len(frame) : ValidCoords(frame, k)})
    ELSE frame

\* The removal of the records with invalid coordinates.
DropInvalidCoords(frame) ==
    IF {"latitude", "longitude"} \subseteq frame.columns
    THEN LET invalid_count ==
                Cardinality({k \in 1..len(frame) : ~ ValidCoords(frame, k)})
         IN  IF invalid_count > 0
             THEN SelectRows(frame,
                    {k \in 1..len(frame) :
                        \/ ValidCoords(frame, k)
                        \/ isna(frame.rows[k]["latitude"])
                        \/ isna(frame.rows[k]["longitude"])})
             ELSE frame
    ELSE frame

\* fix_common_issues: the steps in the order of the code.
fix_common_issues(frame) ==
    DropInvalidCoords(ClipOutliers(DropMissingRequired(drop_duplicates(frame))))

(* ------------------------- scenario batches --------------------------- *)

\* The batch of the specification's end-to-end scenario.
EndToEndBatch ==
    LET row(id, rent, area, url) ==
            [property_id |-> P(id), rent |-> P(rent), area |-> P(area),
             url |-> P(url)]
    IN  DataFrame({"property_id", "rent", "area", "url"},
            <<row("001", 125000, 355, "url1"),
              row("002", 350000, 750, "url2"),
              row("003", -1000, 0, "url3"),
              row("003", 10000000, 10000, "url3")>>)

\* test_fix_common_issues
TestFixBatch ==
    LET row(id, rent, area, lat, lon) ==
            [property_id |-> P(id), rent |-> P(rent), area |-> P(area),
             latitude |-> P(lat), longitude |-> P(lon)]
    IN  DataFrame({"property_id", "rent", "area", "latitude", "longitude"},
            <<row("001", 100000, 300, 356, 1397),
              row("002", 200000, 500, 357, 1398),
              row("003", -1000, 0, 1000, 2000),
              row("003", 10000000, 10000, 358, 1399)>>)

\* test_quality_score_calculation, good_data
GoodDataBatch ==
    LET row(id, site, url, title, type, city, rent, plan, area) ==
            [property_id |-> P(id), site_name |-> P(site), url |-> P(url),
             title |-> P(title), property_type |-> P(type), city |-> P(city),
             rent |-> P(rent), floor_plan |-> P(plan), area |-> P(area)]
    IN  DataFrame(RequiredColumnSet,
            <<row("001", "SUUMO", "url1", "Title 1", "mansion", "shibuya",
                  125000, "1LDK", 355),
              row("002", "SUUMO", "url2", "Title 2", "apartment", "minato",
                  200000, "2LDK", 500),
              row("003", "HOMES", "url3", "Title 3", "mansion", "setagaya",
                  150000, "1K", 250)>>)

\* The good data as a scraper that reads no title and no city delivers it.
PartialGoodBatch ==
    LET columns == RequiredColumnSet \ {"title", "city"}
    IN  DataFrame(columns,
            [k \in 1..Len(GoodDataBatch.rows) |->
                [c \in columns |-> GoodDataBatch.rows[k][c]]])

\* test_check_missing_values
TestMissingBatch ==
    DataFrame({"property_id", "rent", "area"},
        <<[property_id |-> P("001"), rent |-> P(100000), area |-> P(300)],
          [property_id |-> P("002"), rent |-> P(200000), area |-> NA],
          [property_id |-> NA, rent |-> NA, area |-> P(500)]>>)

\* test_check_outliers
TestOutliersBatch ==
    LET row(id, rent, area, floor) ==
            [property_id |-> P(id), rent |-> P(rent), area |-> P(area),
             floor_number |-> P(floor)]
    IN  DataFrame({"property_id", "rent", "area", "floor_number"},
            <<row("001", 100000, 300, 5),
              row("002", 200000, 500, 10),
              row("003", 10000000, 10000, 150)>>)

\* test_check_duplicates
TestDuplicatesBatch ==
    LET row(id, url, addr, plan, rent) ==
            [property_id |-> P(id), url |-> P(url), address |-> P(addr),
             floor_plan |-> P(plan), rent |-> P(rent)]
    IN  DataFrame({"property_id", "url", "address", "floor_plan", "rent"},
            <<row("001", "url1", "addr1", "1LDK", 100000),
              row("002", "url2", "addr2", "2LDK", 200000),
              row("002", "url2", "addr3", "1LDK", 150000)>>)

\* demonstrate_quality_checks
ExampleBatch ==
    LET row(id, site, url, city, rent, area, plan, lat, lon) ==
            [property_id |-> P(id), site_name |-> P(site), url |-> P(url),
             city |-> P(city), rent |-> P(rent), area |-> P(area),
             floor_plan |-> plan, latitude |-> P(lat), longitude |-> P(lon)]
    IN  DataFrame({"property_id", "site_name", "url", "city", "rent", "area",
                   "floor_plan", "latitude", "longitude"},
            <<row("001", "SUUMO", "url1", "shibuya", 125000, 355, P("1LDK"), 356, 1397),
              row("002", "SUUMO", "url2", "minato", 350000, 750, P("2LDK"), 357, 1398),
              row("003", "HOMES", "url3", "setagaya", -1000, 0, NA, 1000, 2000),
              row("003", "HOMES", "url3", "setagaya", 10000000, 10000, P("3LDK"),
                  358, 1399)>>)

\* The specification's invalid-coordinate scenario: a row with latitude 100.0
\* and longitude 200.0 and a row with an absent latitude among valid rows.
InvalidCoordsBatch ==
    LET row(id, rent, area, lat, lon) ==
            [property_id |-> P(id), rent |-> P(rent), area |-> P(area),
             latitude |-> lat, longitude |-> P(lon)]
    IN  DataFrame({"property_id", "rent", "area", "latitude", "longitude"},
            <<row("001", 100000, 300, P(356), 1397),
              row("002", 200000, 500, P(1000), 2000),
              row("003", 150000, 400, NA, 1399)>>)

\* A batch with every defect at once: a row with every required value
\* absent, and two rows sharing id and url with every rule-table column out
\* of range.
WorstBatch ==
    LET bad(rent, area, floor, dist, lat, lon) ==
            [c \in RequiredColumnSet \cup RuleColumnSet |->
                CASE c = "rent" -> P(rent)
                  [] c = "area" -> P(area)
                  [] c = "floor_number" -> P(floor)
                  [] c = "station_distance" -> P(dist)
                  [] c = "latitude" -> P(lat)
                  [] c = "longitude" -> P(lon)
                  [] OTHER -> P("x")]
        none == [c \in RequiredColumnSet \cup RuleColumnSet |->
                    IF c \in RequiredColumnSet THEN NA
                    ELSE P(validation_rules[c].min)]
    IN  DataFrame(RequiredColumnSet \cup RuleColumnSet,
            <<none,
              bad(-1000, 0, -4, -1, 1000, 2000),
              bad(10000000, 10000, 150, 61, 239, 1219)>>)

\* A batch longer than the outlier cap, every rent out of range: six above
\* the maximum, then six below the minimum.
LongBatchLen == OutlierCap + 2

LongBatch ==
    DataFrame({"property_id", "rent"},
        [k \in 1..LongBatchLen |->
            [property_id |-> P("L" \o ToString(k)),
             rent |-> IF 2 * k <= LongBatchLen THEN P(10000000 + k)
                      ELSE P(-1000 - k)]])

\* A batch with columns and no rows.
EmptyBatch == DataFrame({"property_id", "url", "rent", "area"}, <<>>)

Scenarios ==
    {EndToEndBatch, TestFixBatch, GoodDataBatch, PartialGoodBatch,
     TestMissingBatch,
     TestOutliersBatch, TestDuplicatesBatch, ExampleBatch, InvalidCoordsBatch,
     WorstBatch, LongBatch, EmptyBatch}

(* --------------------------- the state machine ------------------------ *)

None == <<>>

Some(x) == <<x>>

\* The columns whose values identify a listing.
KeyColumns == {"property_id", "url"}

\* The values a caller may write into cell (k, c): for a rule-table column
\* the two bounds and the values just outside them; for a key column the
\* value of the row before it (of the last row for the first) and a value
\* no scenario uses.
EditValues(frame, k, c) ==
    IF c \in RuleColumnSet
    THEN {P(validation_rules[c].min - 1), P(validation_rules[c].min),
          P(validation_rules[c].max), P(validation_rules[c].max + 1)}
    ELSE IF c \in KeyColumns
    THEN {frame.rows[IF k = 1 THEN len(frame) ELSE k - 1][c], P("new")} \ {NA}
    ELSE {}

SetCell(frame, k, c, cell) ==
    [frame EXCEPT !.rows[k][c] = cell]

\* No parser is called.
ParserIdle == text = <<>> /\ parsed = None

\* No batch has been handed to the column normalizer.
NormalizerIdle ==
    /\ batch = [dtypes |-> <<>>, rows |-> <<>>]
    /\ stages = <<>>

\* No call has been made on the RobotsChecker.
RobotsIdle ==
    /\ parsers = <<>>
    /\ fetched = <<>>
    /\ answer = None
    /\ calls = 0

\* scrape_area has not been called.
ScraperIdle ==
    /\ max_pages = 0
    /\ page = 0
    /\ results = <<>>
    /\ all_properties = <<>>
    /\ scrape_pc = "idle"

\* The quality stage of process_and_export has not been reached.
ExportIdle ==
    /\ export_format = ""
    /\ export_df = EmptyBatch
    /\ quality_report = None
    /\ written = None
    /\ export_result = None
    /\ export_pc = "idle"

\* process_and_export has not been called.
GeocoderIdle ==
    /\ listings = <<>>
    /\ apply_geocoding = FALSE
    /\ addresses_to_geocode = <<>>
    /\ geocoding_results = <<>>
    /\ step = "idle"

Init ==
    /\ df \in Scenarios
    /\ edits = 0
    /\ report = None
    /\ fixed = None
    /\ ParserIdle
    /\ NormalizerIdle
    /\ GeocoderIdle
    /\ RobotsIdle
    /\ ScraperIdle
    /\ ExportIdle

\* The caller loses the value of one cell.
SetMissing(k, c) ==
    /\ edits < MaxEdits
    /\ report = None /\ fixed = None
    /\ notna(df.rows[k][c])
    /\ df' = SetCell(df, k, c, NA)
    /\ edits' = edits + 1
    /\ UNCHANGED <<report, fixed, notCheckerVars>>

\* The caller writes another value into one cell.
SetValue(k, c, cell) ==
    /\ edits < MaxEdits
    /\ report = None /\ fixed = None
    /\ df.rows[k][c] # cell
    /\ df' = SetCell(df, k, c, cell)
    /\ edits' = edits + 1
    /\ UNCHANGED <<report, fixed, notCheckerVars>>

\* The caller appends a copy of row k (as scraping a listing twice does).
DuplicateRow(k) ==
    /\ edits < MaxEdits
    /\ report = None /\ fixed = None
    /\ df' = DataFrame(df.columns, Append(df.rows, df.rows[k]))
    /\ edits' = edits + 1
    /\ UNCHANGED <<report, fixed, notCheckerVars>>

\* report = checker.check_data_quality(df)
CheckDataQuality ==
    /\ report = None
    /\ report' = Some(check_data_quality(df))
    /\ UNCHANGED <<df, edits, fixed, notCheckerVars>>

\* fixed_df = checker.fix_common_issues(df)
FixCommonIssues ==
    /\ fixed = None
    /\ fixed' = Some(fix_common_issues(df))
    /\ UNCHANGED <<df, edits, report, notCheckerVars>>

Next ==
    \/ \E k \in 1..len(df) : \E c \in df.columns : SetMissing(k, c)
    \/ \E k \in 1..len(df) : \E c \in df.columns :
            \E cell \in EditValues(df, k, c) : SetValue(k, c, cell)
    \/ \E k \in 1..len(df) : DuplicateRow(k)
    \/ CheckDataQuality
    \/ FixCommonIssues

Spec == Init /\ [][Next]_vars

(* ------------------------------ claims -------------------------------- *)

\* What the claims read from a batch b, stated on the batch itself.
HasColumn(b, c) == c \in b.columns

Absent(b, k, c) == ~ HasColumn(b, c) \/ b.rows[k][c] = NA

Value(b, k, c) == b.rows[k][c][1]

OutOfRange(b, k, c) ==
    /\ ~ Absent(b, k, c)
    /\ \/ Value(b, k, c) < validation_rules[c].min
       \/ Value(b, k, c) > validation_rules[c].max

\* Row k holds a value of column c that another row holds too.
ValueOccursTwice(b, k, c) ==
    /\ ~ Absent(b, k, c)
    /\ \E j \in 1..len(b) : j # k /\ ~ Absent(b, j, c)
                            /\ Value(b, j, c) = Value(b, k, c)

\* Column c of batch b, top to bottom.
ColumnValues(b, c) == [j \in 1..len(b) |-> b.rows[j][c]]

NoValueTwice(b, c) == \A k \in 1..len(b) : ~ ValueOccursTwice(b, k, c)

NoRowTwice(b) == \A j, k \in 1..len(b) : j # k => b.rows[j] # b.rows[k]

\* Row k is the first of its exact full-row copies and holds every required
\* value its batch has a column for.
FirstOfItsCopies(b, k) == \A j \in 1..(k - 1) : b.rows[j] # b.rows[k]

RequiredPresent(b, k) ==
    \A c \in RequiredColumnSet \cap b.columns : ~ Absent(b, k, c)

Checked == report # None

Fixed == fixed # None

theReport == report[1]

theFixed == fixed[1]

\* C1: the quality score of every report lies in [0, 100].
ScoreInRange ==
    Checked => /\ theReport.quality_score >= 0
               /\ theReport.quality_score <= 10000

\* C1 witness: all nine required columns have missing values, the deductions
\* add up to more than 100 and the score is 0.
ScoreInRangeWitness ==
    /\ Checked
    /\ RequiredColumnSet \subseteq DOMAIN theReport.missing_values
    /\ MissingPenalty(theReport.missing_values)
         + OutlierPenalty(theReport.outliers)
         + DuplicatePenalty(theReport.duplicates) > 10000
    /\ theReport.quality_score = 0

\* The score the specification states for batch b: 100, minus min(10,
\* percentage) for each required column with a missing value, minus min(20,
\* 2 x the rule-table columns with an outlier), minus 10 if a property_id
\* occurs twice, minus 5 if a url occurs twice, clamped to [0, 100].
StatedMissing(b) ==
    LET cols == {c \in RequiredColumnSet \cap b.columns :
                    \E k \in 1..len(b) : Absent(b, k, c)}
        deduction(c) ==
            Min(1000, RoundPct(Cardinality({k \in 1..len(b) : Absent(b, k, c)}),
                               len(b)))
        sum[S \in SUBSET cols] ==
            IF S = {} THEN 0
            ELSE LET c == CHOOSE x \in S : TRUE
                 IN  deduction(c) + sum[S \ {c}]
    IN  sum[cols]

StatedOutlierColumns(b) ==
    {c \in RuleColumnSet \cap b.columns : \E k \in 1..len(b) : OutOfRange(b, k, c)}

StatedScore(b) ==
    LET raw == 10000 - StatedMissing(b)
                     - Min(2000, 200 * Cardinality(StatedOutlierColumns(b)))
                     - (IF \E k \in 1..len(b) : ValueOccursTwice(b, k, "property_id")
                        THEN 1000 ELSE 0)
                     - (IF \E k \in 1..len(b) : ValueOccursTwice(b, k, "url")
                        THEN 500 ELSE 0)
    IN  Max(0, Min(10000, raw))

\* C2: the quality score equals the stated formula: 100 minus the
\* missing-value, outlier and duplicate deductions, clamped to [0, 100].
ScoreIsStatedFormula ==
    Checked => theReport.quality_score = StatedScore(df)

\* C3: a batch b2 is b with more defects and nothing else changed: the same
\* rows and columns, every absent cell still absent, every out-of-range cell
\* still out of range, every duplicated id/url still duplicated, and every
\* changed cell now absent, out of range or a duplicated id/url.
IsDefect(b, k, c) ==
    \/ Absent(b, k, c)
    \/ c \in RuleColumnSet /\ OutOfRange(b, k, c)
    \/ c \in KeyColumns /\ ValueOccursTwice(b, k, c)

Degraded(b, b2) ==
    /\ b2.columns = b.columns
    /\ len(b2) = len(b)
    /\ b2.index = b.index
    /\ \A k \in 1..len(b) : \A c \in b.columns :
        /\ Absent(b, k, c) => Absent(b2, k, c)
        /\ (c \in RuleColumnSet /\ OutOfRange(b, k, c)) => OutOfRange(b2, k, c)
        /\ (c \in KeyColumns /\ ValueOccursTwice(b, k, c))
                => ValueOccursTwice(b2, k, c)
        /\ b2.rows[k][c] # b.rows[k][c] => IsDefect(b2, k, c)

Score(b) ==
    CalculateQualityScore([missing_values |-> CheckMissingValues(b),
                           outliers       |-> CheckOutliers(b),
                           duplicates     |-> CheckDuplicates(b)])

\* C3: introducing more missing values, out-of-range values or duplicate
\* ids/urls into an otherwise fixed batch never raises the quality score.
ScoreMonotone ==
    [][(df' # df /\ Degraded(df, df')) => Score(df') <= Score(df)]_vars

\* C3 witness: the batch is a scenario batch with one more defect and scores
\* strictly less than the scenario batch.
ScoreMonotoneWitness ==
    \E b \in Scenarios :
        /\ df # b
        /\ Degraded(b, df)
        /\ Score(df) < Score(b)

\* The rows of the repaired batch, by index label.
Survives(k) == \E j \in 1..len(theFixed) : theFixed.index[j] = df.index[k]

InRangeOrAbsent(b, j, c) ==
    \/ b.rows[j][c] = NA
    \/ /\ Value(b, j, c) >= validation_rules[c].min
       /\ Value(b, j, c) <= validation_rules[c].max

\* C4: fix_common_issues returns no more rows than it was given, and every
\* rule-table value of a surviving row is within its range or absent.
FixBoundsRows ==
    Fixed => /\ len(theFixed) <= len(df)
             /\ \A j \in 1..len(theFixed) :
                    \A c \in RuleColumnSet \cap theFixed.columns :
                        InRangeOrAbsent(theFixed, j, c)

\* C4 witness: a repair that dropped a row and clipped an out-of-range value
\* of a surviving row.
FixBoundsRowsWitness ==
    /\ Fixed
    /\ len(theFixed) < len(df)
    /\ \E k \in 1..len(df) : \E c \in RuleColumnSet \cap df.columns :
            Survives(k) /\ OutOfRange(df, k, c)

\* Apart from the coordinates of row k, batch b is valid: no two rows are
\* equal, every required value is held and no rule-table value is out of
\* range.
OtherwiseValid(b, k) ==
    /\ NoRowTwice(b)
    /\ \A j \in 1..len(b) :
        /\ RequiredPresent(b, j)
        /\ \A c \in RuleColumnSet \cap b.columns :
                OutOfRange(b, j, c) => (j = k /\ c \in {"latitude", "longitude"})

\* C5: a row with latitude 100.0 and longitude 200.0 among otherwise valid
\* rows is dropped by fix_common_issues: it is not in the returned batch.
InvalidCoordsDropped ==
    Fixed => \A k \in 1..len(df) :
                (/\ {"latitude", "longitude"} \subseteq df.columns
                 /\ df.rows[k]["latitude"] = P(1000)
                 /\ df.rows[k]["longitude"] = P(2000)
                 /\ OtherwiseValid(df, k))
                    => ~ Survives(k)

\* C6: a row that is no full-row duplicate, holds every required value and
\* has an absent latitude or longitude is retained by fix_common_issues.
AbsentCoordsRetained ==
    Fixed => \A k \in 1..len(df) :
                (/\ FirstOfItsCopies(df, k)
                 /\ RequiredPresent(df, k)
                 /\ \/ Absent(df, k, "latitude")
                    \/ Absent(df, k, "longitude"))
                    => Survives(k)

\* C6 witness: a batch with both coordinate columns, a retained row whose
\* latitude is absent and whose longitude is held, and a retained row whose
\* longitude is absent.
AbsentCoordsRetainedWitness ==
    /\ Fixed
    /\ {"latitude", "longitude"} \subseteq df.columns
    /\ \E k \in 1..len(df) :
        /\ df.rows[k]["latitude"] = NA \/ df.rows[k]["longitude"] = NA
        /\ df.rows[k]["latitude"] # NA \/ df.rows[k]["longitude"] # NA
        /\ Survives(k)

EndToEndFixed == df = EndToEndBatch /\ Fixed

EndToEndChecked == df = EndToEndBatch /\ Checked

\* C8 as stated: for the end-to-end batch, check_data_quality reports a
\* quality score below 80.
EndToEndScoreBelow80 ==
    EndToEndChecked => theReport.quality_score < 8000

\* C8 as amended: for the end-to-end batch, check_data_quality reports the
\* quality score 81: 100 - 4 (two outlier columns) - 10 (duplicate
\* property_id) - 5 (duplicate url), no column having a missing value.
EndToEndScoreIs81 ==
    EndToEndChecked => theReport.quality_score = 8100

\* C8 witness: the end-to-end batch has been checked: rent and area are the
\* outlier columns, property_id and url are reported duplicated, nothing is
\* missing.
EndToEndScoreWitness ==
    /\ EndToEndChecked
    /\ DOMAIN theReport.outliers = {"rent", "area"}
    /\ DOMAIN theReport.duplicates = {"property_id", "url"}
    /\ DOMAIN theReport.missing_values = {}

\* C9: the duplicate count reported for property_id (url) is the number of
\* rows whose property_id (url) value occurs in more than one row, and the
\* entry is absent from the report exactly when no value occurs twice.
DuplicateCountIsRowsOfRepeatedValues ==
    Checked =>
        \A c \in KeyColumns :
            LET n == Cardinality({k \in 1..len(df) : ValueOccursTwice(df, k, c)})
            IN  /\ (n = 0) <=> (c \notin DOMAIN theReport.duplicates)
                /\ c \in DOMAIN theReport.duplicates
                        => theReport.duplicates[c].count = n

\* The outlier list reported for column c (empty when it has no entry).
ReportedOutliers(c) ==
    IF c \in DOMAIN theReport.outliers THEN theReport.outliers[c] ELSE <<>>

IsBelow(k, c) == ~ Absent(df, k, c) /\ Value(df, k, c) < validation_rules[c].min

IsAbove(k, c) == ~ Absent(df, k, c) /\ Value(df, k, c) > validation_rules[c].max

ReportedAs(k, c, kind, bound) ==
    \E j \in 1..Len(ReportedOutliers(c)) :
        /\ ReportedOutliers(c)[j].index = df.index[k]
        /\ ReportedOutliers(c)[j].issue = [kind |-> kind, bound |-> bound]

\* C10: for every rule-table column of the batch, a row is reported with
\* reason 'Below minimum (min)' only when its value is below min and with
\* 'Above maximum (max)' only when it is above max; when the column has at
\* most 10 such rows every one of them is reported, otherwise 10 are; values
\* equal to a bound and absent values are never reported, and a column has
\* an entry exactly when it has such a row.
OutliersAreOutOfRangeRows ==
    Checked =>
        /\ DOMAIN theReport.outliers \subseteq RuleColumnSet \cap df.columns
        /\ \A c \in RuleColumnSet \cap df.columns :
            LET rules == validation_rules[c]
                total == Cardinality({k \in 1..len(df) : OutOfRange(df, k, c)})
            IN  /\ (c \in DOMAIN theReport.outliers) <=> (total > 0)
                /\ Len(ReportedOutliers(c)) = Min(total, OutlierCap)
                /\ \A j \in 1..Len(ReportedOutliers(c)) :
                    \E k \in 1..len(df) :
                        /\ ReportedOutliers(c)[j].index = df.index[k]
                        /\ ReportedOutliers(c)[j].value = Value(df, k, c)
                        /\ \/ /\ IsBelow(k, c)
                              /\ ReportedOutliers(c)[j].issue
                                    = [kind |-> "Below minimum", bound |-> rules.min]
                           \/ /\ IsAbove(k, c)
                              /\ ReportedOutliers(c)[j].issue
                                    = [kind |-> "Above maximum", bound |-> rules.max]
                /\ \A k \in 1..len(df) :
                    /\ ReportedAs(k, c, "Below minimum", rules.min) => IsBelow(k, c)
                    /\ ReportedAs(k, c, "Above maximum", rules.max) => IsAbove(k, c)
                    /\ total <= OutlierCap =>
                        /\ IsBelow(k, c) => ReportedAs(k, c, "Below minimum", rules.min)
                        /\ IsAbove(k, c) => ReportedAs(k, c, "Above maximum", rules.max)

\* C10 witness: a checked batch with a column that has a row reported below
\* the minimum, a row reported above the maximum and an unreported row
\* holding exactly a bound, and a column with an unreported absent value
\* next to reported rows.
OutliersWitness ==
    /\ Checked
    /\ \E c \in RuleColumnSet \cap df.columns :
        /\ \E k \in 1..len(df) :
                ReportedAs(k, c, "Below minimum", validation_rules[c].min)
        /\ \E k \in 1..len(df) :
                ReportedAs(k, c, "Above maximum", validation_rules[c].max)
        /\ \E k \in 1..len(df) :
            /\ ~ Absent(df, k, c)
            /\ Value(df, k, c) \in {validation_rules[c].min, validation_rules[c].max}
            /\ \A j \in 1..Len(ReportedOutliers(c)) :
                    ReportedOutliers(c)[j].index # df.index[k]
    /\ \E c \in RuleColumnSet \cap df.columns :
        /\ c \in DOMAIN theReport.outliers
        /\ \E k \in 1..len(df) :
            /\ Absent(df, k, c)
            /\ \A j \in 1..Len(ReportedOutliers(c)) :
                    ReportedOutliers(c)[j].index # df.index[k]

\* The positions of the out-of-range rows of column c of the checked batch,
\* top to bottom.
OutOfRangePositions(c) ==
    Positions(len(df), {k \in 1..len(df) : OutOfRange(df, k, c)})

\* C11: every reported outlier list has at most 10 entries, and its entries
\* are the first 10 out-of-range rows of the column in original row order
\* (a below-minimum row and an above-maximum row keep their relative batch
\* order in the list, and no reported row comes after an unreported
\* out-of-range row).
OutlierListIsFirstTenInRowOrder ==
    Checked =>
        \A c \in DOMAIN theReport.outliers :
            LET pos == OutOfRangePositions(c)
                lst == theReport.outliers[c]
            IN  /\ Len(lst) <= OutlierCap
                /\ Len(lst) = Min(OutlierCap, Len(pos))
                /\ \A j \in 1..Len(lst) : lst[j].index = df.index[pos[j]]

\* The positions of the rows of column c the check finds: the below-minimum
\* rows top to bottom, then the above-maximum rows top to bottom.
BelowThenAbovePositions(c) ==
    Positions(len(df), {k \in 1..len(df) : IsBelow(k, c)})
        \o Positions(len(df), {k \in 1..len(df) : IsAbove(k, c)})

\* C11 (amended): every reported outlier list has at most 10 entries, and
\* its entries are the first 10 of: the below-minimum rows of the column in
\* row order, followed by the above-maximum rows in row order.
OutlierListIsBelowThenAbove ==
    Checked =>
        \A c \in DOMAIN theReport.outliers :
            LET pos == BelowThenAbovePositions(c)
                lst == theReport.outliers[c]
            IN  /\ Len(lst) <= OutlierCap
                /\ Len(lst) = Min(OutlierCap, Len(pos))
                /\ \A j \in 1..Len(lst) : lst[j].index = df.index[pos[j]]

\* C11 witness: a checked batch with a column of more than 10 out-of-range
\* rows whose list has 10 entries, among them an above-maximum row that
\* stands before a reported below-minimum row in the batch, and with an
\* unreported out-of-range row before a reported one.
OutlierListWitness ==
    /\ Checked
    /\ \E c \in DOMAIN theReport.outliers :
        /\ Len(OutOfRangePositions(c)) > OutlierCap
        /\ Len(theReport.outliers[c]) = OutlierCap
        /\ \E j, k \in 1..len(df) :
            /\ j < k
            /\ ReportedAs(j, c, "Above maximum", validation_rules[c].max)
            /\ ReportedAs(k, c, "Below minimum", validation_rules[c].min)
        /\ \E j, k \in 1..len(df) :
            /\ j < k
            /\ OutOfRange(df, j, c)
            /\ \A i \in 1..OutlierCap :
                    theReport.outliers[c][i].index # df.index[j]
            /\ \E i \in 1..OutlierCap :
                    theReport.outliers[c][i].index = df.index[k]

(* ---------------------------- text parsers ---------------------------- *)
(* DataProcessor (src/src/utils/data_processor.py) and JapaneseTextParser  *)
(* (src/src/utils/text_parser.py) over strings.  A string is a sequence of *)
(* characters; a character is a named token:                               *)
(*   "0".."9" "." "," "-" "+" " " and Latin letters stand for themselves;  *)
(*   "fw0".."fw9", "fwR" "fwK" "fwD" "fwL" "fwS" "fw+" "fwsp" are the      *)
(*   full-width forms ０..９ Ｒ Ｋ Ｄ Ｌ Ｓ ＋ and the ideographic space;      *)
(*   "man" 万  "en" 円  "yen" ¥  "fun" 分  "kachi" 徒  "ho" 歩  "eki" 駅    *)
(*   "BA" バ  "SU" ス  "KE" ヶ  "KA" ヵ  "ka" か  "getsu" 月  "na" な        *)
(*   "shi" し  "NA" ナ  "SHI" シ  "mu" 無  "kai" 階                          *)
(*   "higashi" 東  "kyo" 京  "to" 都  "do" 道  "fu" 府  "ken" 県             *)
(*   "ichi" 市  "ku" 区  "machi" 町  "mura" 村;                              *)
(*   any other token ("x", "a", "b", and the characters of place names    *)
(*   "shibu" 渋 "ya" 谷 "jin" 神 "gu" 宮 "mae" 前 "shin" 新 "juku" 宿       *)
(*   "nishi" 西 "shina" 品 "gawa" 川 "oo" 大 "saki" 崎 "yoko" 横 "hama" 浜   *)
(*   "zuki" 筑 "naka" 中) is a character with no special role.              *)
(* An optional result is None or Some(value).                              *)

\* int(c) of one character matched by \d: the decimal digits, half-width
\* and full-width.
DigitValue ==
    ("0" :> 0) @@ ("1" :> 1) @@ ("2" :> 2) @@ ("3" :> 3) @@ ("4" :> 4)
    @@ ("5" :> 5) @@ ("6" :> 6) @@ ("7" :> 7) @@ ("8" :> 8) @@ ("9" :> 9)
    @@ ("fw0" :> 0) @@ ("fw1" :> 1) @@ ("fw2" :> 2) @@ ("fw3" :> 3)
    @@ ("fw4" :> 4) @@ ("fw5" :> 5) @@ ("fw6" :> 6) @@ ("fw7" :> 7)
    @@ ("fw8" :> 8) @@ ("fw9" :> 9)

\* The characters \d matches.
DigitChars == DOMAIN DigitValue

\* The characters [\d.] matches.
NumberChars == DigitChars \cup {"."}

\* The characters \s matches and str.strip() removes.
SpaceChars == {" ", "fwsp"}

\* s with every character of chars removed: s.replace(c, '') for single
\* characters c, and re.sub('[chars]', '', s).
Remove(s, chars) == SelectSeq(s, LAMBDA c : c \notin chars)

\* re.sub('[^chars]', '', s)
Keep(s, chars) == SelectSeq(s, LAMBDA c : c \in chars)

\* s.strip()
strip(s) ==
    LET inner == {i \in 1..Len(s) : s[i] \notin SpaceChars}
    IN  IF inner = {} THEN <<>>
        ELSE SubSeq(s, CHOOSE i \in inner : \A j \in inner : i <= j,
                       CHOOSE i \in inner : \A j \in inner : i >= j)

\* t occurs in s at position i.
StartsWith(s, i, t) ==
    /\ i + Len(t) - 1 <= Len(s)
    /\ \A j \in 1..Len(t) : s[i + j - 1] = t[j]

\* re.search('([run]+)[gap]*(t1|t2|...)', s) with terms = {t1, t2, ...}:
\* None, or Some(group 1) of the leftmost match, the group as long as a
\* match allows.
Search(s, run, gap, terms) ==
    LET n == Len(s)
        Ends(p) ==
            {e \in p..n :
                /\ \A i \in p..e : s[i] \in run
                /\ \E g \in e..n :
                    /\ \A i \in (e + 1)..g : s[i] \in gap
                    /\ \E t \in terms : StartsWith(s, g + 1, t)}
        starts == {p \in 1..n : Ends(p) # {}}
    IN  IF starts = {} THEN None
        ELSE LET p == CHOOSE i \in starts : \A j \in starts : i <= j
                 e == CHOOSE i \in Ends(p) : \A j \in Ends(p) : i >= j
             IN  Some(SubSeq(s, p, e))

\* int(digits) for a non-empty run of \d characters.
RECURSIVE int(_)
int(digits) ==
    IF Len(digits) = 0 THEN 0
    ELSE 10 * int(SubSeq(digits, 1, Len(digits) - 1))
            + DigitValue[digits[Len(digits)]]

\* 10 ** k
RECURSIVE Pow10(_)
Pow10(k) == IF k = 0 THEN 1 ELSE 10 * Pow10(k - 1)

\* float(run) raises ValueError for a run of [\d.] characters: it has no
\* digit or more than one decimal point.
FloatRaises(run) ==
    \/ Keep(run, DigitChars) = <<>>
    \/ Len(Keep(run, {"."})) > 1

\* float(run) when it does not raise, as [num, scale]: the number
\* num / 10 ** scale.
float(run) ==
    LET dot == {i \in 1..Len(run) : run[i] = "."}
    IN  [num   |-> int(Keep(run, DigitChars)),
         scale |-> IF dot = {} THEN 0
                   ELSE Len(run) - (CHOOSE i \in dot : TRUE)]

\* int(value) for a float value: truncation.
Trunc(value) == value.num \div Pow10(value.scale)

\* The runs of at most 5 characters over 1, 3, 5 and the decimal point
\* whose product float(run) * 10000 is, in IEEE-754 double arithmetic, just
\* below the exact product (1.13 * 10000 is 11299.999999999998), so that
\* int() of it is one less than the exact result.
InexactProducts ==
    {<<"1", ".", "1", "3">>, <<"5", ".", "3", "1">>,
     <<"1", ".", "5", "1", "1">>, <<"1", ".", "5", "1", "3">>,
     <<"1", ".", "5", "1", "5">>, <<"3", ".", "1", "3", "1">>,
     <<"3", ".", "1", "3", "5">>, <<"3", ".", "1", "5", "1">>,
     <<"3", ".", "1", "5", "5">>, <<"5", ".", "1", "5", "3">>,
     <<".", "1", "5", "5", "1">>}

\* int(float(run) * 10000) with the product taken exactly.
TimesTenThousandExact(run) ==
    (float(run).num * 10000) \div Pow10(float(run).scale)

\* int(float(run) * 10000)
TimesTenThousand(run) ==
    IF run \in InexactProducts
    THEN TimesTenThousandExact(run) - 1
    ELSE TimesTenThousandExact(run)

\* A call that ends with an exception the function does not catch.
Raise(exception) == <<"raise", exception>>

\* float(run) * 10 ** shift is inf, for a run float() accepts: the product
\* rounds beyond the largest double, 1.7976931348623157e308.  The integer
\* part of the run decides: with the shift it has more than 309 digits, or
\* it has 309 digits and these begin with digits that are at or above those
\* of the rounding boundary 2 ** 1024 - 2 ** 970 = 1.7976931348623158...e308
\* (compared on its first 17 digits).
IsInfinite(run, shift) ==
    LET dot == {i \in 1..Len(run) : run[i] = "."}
        whole == IF dot = {} THEN run
                 ELSE SubSeq(run, 1, (CHOOSE i \in dot : TRUE) - 1)
        nonzero == {i \in 1..Len(whole) : DigitValue[whole[i]] # 0}
        first == CHOOSE i \in nonzero : \A j \in nonzero : i <= j
        digits == IF nonzero = {} THEN 0 ELSE Len(whole) - first + 1 + shift
        boundary == <<1, 7, 9, 7, 6, 9, 3, 1, 3, 4, 8, 6, 2, 3, 1, 5, 8>>
        Digit(k) == IF first + k - 1 <= Len(whole)
                    THEN DigitValue[whole[first + k - 1]] ELSE 0
        differ == {k \in 1..Len(boundary) : Digit(k) # boundary[k]}
    IN  \/ digits > 309
        \/ /\ digits = 309
           /\ \/ differ = {}
              \/ LET k == CHOOSE i \in differ : \A j \in differ : i <= j
                 IN  Digit(k) > boundary[k]

\* normalize_rent: int() of an infinite float raises OverflowError, which
\* the except clause (ValueError, AttributeError) does not catch.
normalize_rent(rent_str) ==
    IF rent_str = <<>> \/ rent_str = <<"-">> THEN None
    ELSE LET stripped == strip(Remove(rent_str, {"yen", "en", ","}))
             match == IF "man" \in {stripped[i] : i \in 1..Len(stripped)}
                      THEN Search(stripped, NumberChars, {}, {<<"man">>})
                      ELSE None
             direct == Keep(stripped, NumberChars)
         IN  IF match # None
             THEN IF FloatRaises(match[1]) THEN None
                  ELSE IF IsInfinite(match[1], 4) THEN Raise("OverflowError")
                  ELSE Some(TimesTenThousand(match[1]))
             ELSE IF direct # <<>>
             THEN IF FloatRaises(direct) THEN None
                  ELSE IF IsInfinite(direct, 0) THEN Raise("OverflowError")
                  ELSE Some(Trunc(float(direct)))
             ELSE None

\* The strings normalize_fees maps to 0.
NoFeeTokens ==
    {<<"-">>, <<"na", "shi">>, <<"NA", "SHI">>, <<"mu", "shi">>, <<"mu">>,
     <<"0">>, <<"fw0">>}

\* The unit that ends a month count: ヶ月, ヵ月 or か月.
MonthUnits == {<<"KE", "getsu">>, <<"KA", "getsu">>, <<"ka", "getsu">>}

\* normalize_fees with the empty string taken for a 'none' token.
normalize_fees_empty_is_free(fee_str) ==
    IF fee_str \in NoFeeTokens \cup {<<>>} THEN Some(0)
    ELSE LET month_match == Search(fee_str, DigitChars, {}, MonthUnits)
         IN  IF month_match # None THEN Some(int(month_match[1]))
             ELSE normalize_rent(fee_str)

\* normalize_fees
normalize_fees(fee_str) ==
    IF fee_str = <<>> THEN None
    ELSE IF fee_str \in NoFeeTokens THEN Some(0)
    ELSE LET month_match == Search(fee_str, DigitChars, {}, MonthUnits)
         IN  IF month_match # None THEN Some(int(month_match[1]))
             ELSE normalize_rent(fee_str)

(* ------------------- the rent and fee parsers at work ------------------ *)

\* The longest string over an alphabet the caller passes to a parser.
MaxTextLen == 4

\* All strings of at most n characters of alphabet.
Strings(alphabet, n) == UNION {[1..k -> alphabet] : k \in 0..n}

\* test_normalize_rent: 12.5万円, 125,000円, ¥125,000, 125000, 10万円, -, ''.
TestRentInputs ==
    {<<"1", "2", ".", "5", "man", "en">>,
     <<"1", "2", "5", ",", "0", "0", "0", "en">>,
     <<"yen", "1", "2", "5", ",", "0", "0", "0">>,
     <<"1", "2", "5", "0", "0", "0">>,
     <<"1", "0", "man", "en">>,
     <<"-">>,
     <<>>}

\* test_normalize_fees: 1ヶ月, 2ヵ月, 50,000円, なし, -, 無, ''; and the other
\* tokens and the third month unit of normalize_fees: ナシ, 無し, 0, ０, 3か月.
TestFeeInputs ==
    {<<"1", "KE", "getsu">>,
     <<"2", "KA", "getsu">>,
     <<"5", "0", ",", "0", "0", "0", "en">>,
     <<"na", "shi">>,
     <<"-">>,
     <<"mu">>,
     <<>>,
     <<"NA", "SHI">>, <<"mu", "shi">>, <<"0">>, <<"fw0">>,
     <<"3", "ka", "getsu">>}

\* The strings handed to the rent and fee parsers: all short strings of
\* the characters a rent is written with (digits, the decimal point, the
\* thousands separator, 万, 円 and a character with no role) and of those a
\* fee is written with (digits, ヶ and 月 of a month count, 無 and し of the
\* 'none' tokens, the dash); the strings of the tests; and strings as
\* listings show them: 1.13万円, a rent range 1,000円-5,000円, a rent with its
\* fee 15万円 (5,000円), a full-width month count １２ヶ月 and a deposit
\* 敷金2ヶ月 written with other text before it.
RentInputs ==
    Strings({"1", "5", ".", ",", "man", "en", "x"}, MaxTextLen)
        \cup Strings({"0", "2", "KE", "getsu", "mu", "shi", "-"}, MaxTextLen)
        \cup TestRentInputs \cup TestFeeInputs
        \cup {<<"1", ".", "1", "3", "man", "en">>,
              <<"1", ",", "0", "0", "0", "en", "-",
                "5", ",", "0", "0", "0", "en">>,
              <<"1", "5", "man", "en", " ", "x", "5", ",", "0", "0", "0", "en">>,
              <<"fw1", "fw2", "KE", "getsu">>,
              <<"x", "x", "2", "KE", "getsu">>}

\* What a call returned: the parser called and its result.
Returned(call, result) == Some([call |-> call, result |-> result])

\* No batch is checked.
CheckerIdle ==
    /\ df = EmptyBatch
    /\ edits = 0
    /\ report = None
    /\ fixed = None

\* The variables a call of a text parser leaves alone.
notParserVars ==
    <<checkerVars, normalizerVars, geocoderVars, robotsVars, scraperVars,
      exportVars>>

RentInit ==
    /\ text \in RentInputs
    /\ parsed = None
    /\ CheckerIdle
    /\ NormalizerIdle
    /\ GeocoderIdle
    /\ RobotsIdle
    /\ ScraperIdle
    /\ ExportIdle

\* parsed = processor.normalize_rent(text)
NormalizeRent ==
    /\ parsed = None
    /\ parsed' = Returned("normalize_rent", normalize_rent(text))
    /\ UNCHANGED <<text, notParserVars>>

\* parsed = processor.normalize_fees(text)
NormalizeFees ==
    /\ parsed = None
    /\ parsed' = Returned("normalize_fees", normalize_fees(text))
    /\ UNCHANGED <<text, notParserVars>>

RentNext ==
    \/ NormalizeRent
    \/ NormalizeFees

RentSpec == RentInit /\ [][RentNext]_vars

(* -------------------- claims on the rent and fee parsers --------------- *)

\* The parser `call` has returned.
Called(call) == parsed # None /\ parsed[1].call = call

theResult == parsed[1].result

Chars(s) == {s[i] : i \in 1..Len(s)}

\* The digits that stand immediately before position q of s: the longest
\* run of digits ending at q - 1.
DigitRunBefore(s, q) ==
    LET p == CHOOSE p \in 1..q :
                /\ \A i \in p..(q - 1) : s[i] \in DigitChars
                /\ p = 1 \/ s[p - 1] \notin DigitChars
    IN  SubSeq(s, p, q - 1)

\* The positions of s where a month unit (ヶ月, ヵ月, か月) follows a digit.
MonthCountPositions(s) ==
    {q \in 2..(Len(s) - 1) :
        /\ s[q] \in {"KE", "KA", "ka"}
        /\ s[q + 1] = "getsu"
        /\ s[q - 1] \in DigitChars}

\* The placeholder tokens of the claim: -, なし, ナシ, 無し, 無, 0, ０.
PlaceholderTokens ==
    {<<"-">>, <<"na", "shi">>, <<"NA", "SHI">>, <<"mu", "shi">>, <<"mu">>,
     <<"0">>, <<"fw0">>}

\* C16: normalize_fees gives absent for the empty string, 0 for each
\* placeholder token, N for a string containing a month count <N>ヶ月,
\* <N>ヵ月 or <N>か月 (the first one in the string), and for any other string
\* what normalize_rent gives for it; the empty string never gives 0 and a
\* placeholder token never gives absent.
FeesAsStated ==
    Called("normalize_fees") =>
        /\ text = <<>> => theResult = None
        /\ text \in PlaceholderTokens => theResult = Some(0)
        /\ (text # <<>> /\ text \notin PlaceholderTokens) =>
            IF MonthCountPositions(text) # {}
            THEN LET q == CHOOSE q \in MonthCountPositions(text) :
                            \A r \in MonthCountPositions(text) : q <= r
                 IN  theResult = Some(int(DigitRunBefore(text, q)))
            ELSE theResult = normalize_rent(text)
        /\ text = <<>> => theResult # Some(0)
        /\ text \in PlaceholderTokens => theResult # None

\* C16 witness: normalize_fees has returned the month count of a string
\* whose rent reading is not the count.
FeesWitness ==
    /\ Called("normalize_fees")
    /\ \E q \in MonthCountPositions(text) :
        /\ theResult = Some(int(DigitRunBefore(text, q)))
        /\ theResult # normalize_rent(text)

\* s is a decimal numeral: digits with at most one decimal point.
IsNumeral(s) ==
    /\ \A i \in 1..Len(s) : s[i] \in NumberChars
    /\ Cardinality({i \in 1..Len(s) : s[i] \in DigitChars}) >= 1
    /\ Cardinality({i \in 1..Len(s) : s[i] = "."}) <= 1

\* The value of a numeral times 10,000, truncated to an integer.
NumeralTimesTenThousand(s) ==
    LET digits == SelectSeq(s, LAMBDA c : c \in DigitChars)
        dot == {i \in 1..Len(s) : s[i] = "."}
        decimals == IF dot = {} THEN 0 ELSE Len(s) - (CHOOSE i \in dot : TRUE)
    IN  (int(digits) * 10000) \div Pow10(decimals)

\* The longest run of number characters ending immediately before
\* position q of s.
NumberRunBefore(s, q) ==
    LET p == CHOOSE p \in 1..q :
                /\ \A i \in p..(q - 1) : s[i] \in NumberChars
                /\ p = 1 \/ s[p - 1] \notin NumberChars
    IN  SubSeq(s, p, q - 1)

\* The first contiguous run of digits of s (empty when s has no digit).
FirstDigitRun(s) ==
    LET digits == {i \in 1..Len(s) : s[i] \in DigitChars}
    IN  IF digits = {} THEN <<>>
        ELSE LET p == CHOOSE i \in digits : \A j \in digits : i <= j
                 q == CHOOSE q \in p..Len(s) :
                        /\ \A i \in p..q : s[i] \in DigitChars
                        /\ q = Len(s) \/ s[q + 1] \notin DigitChars
             IN  SubSeq(s, p, q)

\* s with the thousands separators and the currency markers ¥ and 円 removed.
WithoutMarkers(s) == SelectSeq(s, LAMBDA c : c \notin {",", "yen", "en"})

\* C17: normalize_rent gives absent for the empty string, for '-' and for
\* a string with no digit; for a string with 万 preceded by a numeral, that
\* numeral times 10,000 truncated to an integer; and for a string without
\* 万, the integer value of its first contiguous digit run once separators
\* and currency markers are removed, later digit runs being ignored.
RentAsStated ==
    Called("normalize_rent") =>
        LET s == WithoutMarkers(text)
            mans == {q \in 2..Len(s) : s[q] = "man" /\ s[q - 1] \in NumberChars}
        IN  /\ (text = <<>> \/ text = <<"-">> \/ Chars(text) \cap DigitChars = {})
                => theResult = None
            /\ (text # <<"-">> /\ "man" \in Chars(s) /\ mans # {}) =>
                LET q == CHOOSE q \in mans : \A r \in mans : q <= r
                IN  IsNumeral(NumberRunBefore(s, q)) =>
                        theResult = Some(NumeralTimesTenThousand(NumberRunBefore(s, q)))
            /\ (text # <<"-">> /\ "man" \notin Chars(s)
                    /\ Chars(text) \cap DigitChars # {}) =>
                theResult = Some(int(FirstDigitRun(s)))

(* --------------------- the station-distance parsers -------------------- *)

\* normalize_station_distance without the direct numeric conversion.
normalize_station_distance_no_fallback(distance_str) ==
    IF distance_str = <<>> \/ distance_str = <<"-">> THEN None
    ELSE LET match == Search(distance_str, DigitChars, {}, {<<"fun">>})
         IN  IF match # None THEN Some(int(match[1])) ELSE None

\* DataProcessor.normalize_station_distance
normalize_station_distance(distance_str) ==
    IF distance_str = <<>> \/ distance_str = <<"-">> THEN None
    ELSE LET match == Search(distance_str, DigitChars, {}, {<<"fun">>})
             numeric_str == Keep(distance_str, DigitChars)
         IN  IF match # None THEN Some(int(match[1]))
             ELSE IF numeric_str # <<>> THEN Some(int(numeric_str))
             ELSE None

\* unicodedata.normalize('NFKC', c) of the characters it changes to one
\* character: the full-width forms become their half-width forms, the
\* superscript ² becomes 2.
Compatibility ==
    ("fw0" :> "0") @@ ("fw1" :> "1") @@ ("fw2" :> "2") @@ ("fw3" :> "3")
    @@ ("fw4" :> "4") @@ ("fw5" :> "5") @@ ("fw6" :> "6") @@ ("fw7" :> "7")
    @@ ("fw8" :> "8") @@ ("fw9" :> "9") @@ ("fwR" :> "R") @@ ("fwK" :> "K")
    @@ ("fwD" :> "D") @@ ("fwL" :> "L") @@ ("fwS" :> "S") @@ ("fw+" :> "+")
    @@ ("fwsp" :> " ") @@ ("fw." :> ".") @@ ("fw/" :> "/") @@ ("fwF" :> "F")
    @@ ("sup2" :> "2")

\* unicodedata.normalize('NFKC', s); the square-metre sign ㎡ becomes the two
\* characters m2.
RECURSIVE NFKC(_)
NFKC(s) ==
    IF s = <<>> THEN <<>>
    ELSE (IF s[1] = "sqm" THEN <<"m", "2">>
          ELSE IF s[1] \in DOMAIN Compatibility THEN <<Compatibility[s[1]]>>
          ELSE <<s[1]>>) \o NFKC(Tail(s))

\* re.sub(r'\s+', ' ', s): every run of white space becomes one space.
RECURSIVE CollapseSpaces(_)
CollapseSpaces(s) ==
    IF s = <<>> THEN <<>>
    ELSE LET n == Len(s)
             init == CollapseSpaces(SubSeq(s, 1, n - 1))
         IN  IF s[n] \notin SpaceChars THEN Append(init, s[n])
             ELSE IF n > 1 /\ s[n - 1] \in SpaceChars THEN init
             ELSE Append(init, " ")

\* JapaneseTextParser.normalize_text
normalize_text(s) ==
    IF s = <<>> THEN <<>> ELSE strip(CollapseSpaces(NFKC(s)))

\* JapaneseTextParser.parse_station_distance
parse_station_distance(distance_text) ==
    IF distance_text = <<>> THEN None
    ELSE LET match == Search(normalize_text(distance_text), DigitChars,
                             SpaceChars, {<<"fun">>})
         IN  IF match # None THEN Some(int(match[1])) ELSE None

\* test_normalize_station_distance: 徒歩5分, 駅徒歩10分, 15分, バス20分, -, ''.
TestNormalizeDistanceInputs ==
    {<<"kachi", "ho", "5", "fun">>,
     <<"eki", "kachi", "ho", "1", "0", "fun">>,
     <<"1", "5", "fun">>,
     <<"BA", "SU", "2", "0", "fun">>,
     <<"-">>,
     <<>>}

\* test_parse_station_distance: 徒歩5分, 徒歩10分, 歩15分, '徒歩 5 分', '', バス10分.
TestParseDistanceInputs ==
    {<<"kachi", "ho", "5", "fun">>,
     <<"kachi", "ho", "1", "0", "fun">>,
     <<"ho", "1", "5", "fun">>,
     <<"kachi", "ho", " ", "5", " ", "fun">>,
     <<>>,
     <<"BA", "SU", "1", "0", "fun">>}

\* The strings handed to the distance parsers: all short strings of the
\* characters a distance is written with (digits, 分, 徒 and 歩 of 'on
\* foot', バ and ス of 'bus', the space); the strings of the tests; and
\* strings as listings show them: 駅5, 5, full-width １５分, バス10分徒歩5分
\* and 徒歩5分 with ideographic spaces around the number.
DistanceInputs ==
    Strings({"1", "5", "fun", "kachi", "ho", "BA", "SU", " "}, MaxTextLen)
        \cup TestNormalizeDistanceInputs \cup TestParseDistanceInputs
        \cup {<<"eki", "5">>,
              <<"5">>,
              <<"fw1", "fw5", "fun">>,
              <<"BA", "SU", "1", "0", "fun", "kachi", "ho", "5", "fun">>,
              <<"kachi", "ho", "fwsp", "5", "fwsp", "fwsp", "fun">>}

DistanceInit ==
    /\ text \in DistanceInputs
    /\ parsed = None
    /\ CheckerIdle
    /\ NormalizerIdle
    /\ GeocoderIdle
    /\ RobotsIdle
    /\ ScraperIdle
    /\ ExportIdle

\* parsed = processor.normalize_station_distance(text)
NormalizeStationDistance ==
    /\ parsed = None
    /\ parsed' = Returned("normalize_station_distance",
                          normalize_station_distance(text))
    /\ UNCHANGED <<text, notParserVars>>

\* parsed = parser.parse_station_distance(text)
ParseStationDistance ==
    /\ parsed = None
    /\ parsed' = Returned("parse_station_distance", parse_station_distance(text))
    /\ UNCHANGED <<text, notParserVars>>

DistanceNext ==
    \/ NormalizeStationDistance
    \/ ParseStationDistance

DistanceSpec == DistanceInit /\ [][DistanceNext]_vars

(* ------------------ claims on the station-distance parsers ------------- *)

\* The positions of 分 in s that stand immediately after a digit.
MinutePositions(s) ==
    {q \in 2..Len(s) : s[q] = "fun" /\ s[q - 1] \in DigitChars}

\* The integer immediately preceding the first 分 that follows a digit.
FirstMinutes(s) ==
    LET q == CHOOSE q \in MinutePositions(s) :
                \A r \in MinutePositions(s) : q <= r
    IN  int(DigitRunBefore(s, q))

\* C18: normalize_station_distance gives the integer immediately preceding
\* 分 whatever stands before it, and absent for every string in which no
\* integer is immediately followed by 分, digits elsewhere or not.
StationDistanceAbsentWithoutMinutes ==
    Called("normalize_station_distance") =>
        IF MinutePositions(text) # {}
        THEN theResult = Some(FirstMinutes(text))
        ELSE theResult = None

\* C18 (amended): normalize_station_distance gives the integer immediately
\* preceding the first 分 that follows a digit, whatever stands before it;
\* for a string in which no integer is immediately followed by 分 it gives
\* the integer written by all digits of the string in their order, and
\* absent only when the string has no digit.
StationDistanceFallsBackToDigits ==
    Called("normalize_station_distance") =>
        IF MinutePositions(text) # {}
        THEN theResult = Some(FirstMinutes(text))
        ELSE IF Chars(text) \cap DigitChars # {}
        THEN theResult = Some(int(SelectSeq(text, LAMBDA c : c \in DigitChars)))
        ELSE theResult = None

\* C18 witness: normalize_station_distance has returned the digits of a
\* string that has two digit runs and no 分 after a digit.
StationDistanceFallbackWitness ==
    /\ Called("normalize_station_distance")
    /\ MinutePositions(text) = {}
    /\ \E i, j, k \in 1..Len(text) :
        /\ i < j /\ j < k
        /\ text[i] \in DigitChars
        /\ text[j] \notin DigitChars
        /\ text[k] \in DigitChars
    /\ theResult = Some(int(SelectSeq(text, LAMBDA c : c \in DigitChars)))

\* s is prefix, a run of digits and 分: バス<N>分, 徒歩<N>分, 歩<N>分.
IsDistanceBy(s, prefix) ==
    /\ Len(s) >= Len(prefix) + 2
    /\ SubSeq(s, 1, Len(prefix)) = prefix
    /\ s[Len(s)] = "fun"
    /\ \A i \in (Len(prefix) + 1)..(Len(s) - 1) : s[i] \in DigitChars

\* The N of prefix<N>分.
MinutesBy(s, prefix) == int(SubSeq(s, Len(prefix) + 1, Len(s) - 1))

\* C19: JapaneseTextParser.parse_station_distance gives absent for a bus
\* distance バス<N>分 and the minute count N for the walking distances
\* 徒歩<N>分 and 歩<N>分.
BusDistanceIsAbsent ==
    Called("parse_station_distance") =>
        /\ IsDistanceBy(text, <<"BA", "SU">>) => theResult = None
        /\ IsDistanceBy(text, <<"kachi", "ho">>)
            => theResult = Some(MinutesBy(text, <<"kachi", "ho">>))
        /\ IsDistanceBy(text, <<"ho">>)
            => theResult = Some(MinutesBy(text, <<"ho">>))

(* --------------------------- address components ----------------------- *)

\* [都道府県]
PrefectureChars == {"to", "do", "fu", "ken"}

\* [市区町村]
CityChars == {"ichi", "ku", "machi", "mura"}

\* re.match(r'(.+?[chars])', s): None, or Some(group 1), the shortest
\* prefix of s that has a character before its last one and ends with a
\* character of chars.
MatchUpTo(s, chars) ==
    LET ends == {q \in 2..Len(s) : s[q] \in chars}
    IN  IF ends = {} THEN None
        ELSE Some(SubSeq(s, 1, CHOOSE q \in ends : \A r \in ends : q <= r))

\* s[n:]
From(s, n) == SubSeq(s, n + 1, Len(s))

\* s.split(' ', 1)
SplitOnce(s) ==
    LET spaces == {i \in 1..Len(s) : s[i] = " "}
    IN  IF spaces = {} THEN <<s>>
        ELSE LET i == CHOOSE i \in spaces : \A j \in spaces : i <= j
             IN  <<SubSeq(s, 1, i - 1), From(s, i)>>

\* JapaneseTextParser.extract_address_components
extract_address_components(address) ==
    IF address = <<>>
    THEN [prefecture |-> <<>>, city |-> <<>>, district |-> <<>>, detail |-> <<>>]
    ELSE
    LET normal == normalize_text(address)
        prefecture_match ==
            IF StartsWith(normal, 1, <<"higashi", "kyo", "to">>)
            THEN Some(<<"higashi", "kyo", "to">>)
            ELSE MatchUpTo(normal, PrefectureChars)
        prefecture == IF prefecture_match # None THEN prefecture_match[1] ELSE <<>>
        after_prefecture == From(normal, Len(prefecture))
        city_match == MatchUpTo(after_prefecture, CityChars)
        city == IF city_match # None THEN city_match[1] ELSE <<>>
        rest == From(after_prefecture, Len(city))
        parts == SplitOnce(rest)
    IN  [prefecture |-> prefecture,
         city       |-> city,
         district   |-> IF rest # <<>> THEN parts[1] ELSE <<>>,
         detail     |-> IF rest # <<>> /\ Len(parts) > 1 THEN parts[2] ELSE <<>>]

\* test_extract_address_components: 東京都渋谷区神宮前1-2-3,
\* '東京都 新宿区 西新宿 2-8-1', 品川区大崎, ''.
TestAddressInputs ==
    {<<"higashi", "kyo", "to", "shibu", "ya", "ku", "jin", "gu", "mae",
       "1", "-", "2", "-", "3">>,
     <<"higashi", "kyo", "to", " ", "shin", "juku", "ku", " ", "nishi",
       "shin", "juku", " ", "2", "-", "8", "-", "1">>,
     <<"shina", "gawa", "ku", "oo", "saki">>,
     <<>>}

\* The strings handed to the address parser: all short strings of the
\* characters an address is written with (都 and 県 of a prefecture, 市 and
\* 区 of a city or ward, the space and two characters of names); the
\* strings of the test; and addresses of listings that give no prefecture:
\* 横浜市都筑区中川1 and '品川区大崎 1-2'.
AddressInputs ==
    Strings({"a", "b", "to", "ken", "ichi", "ku", " "}, MaxTextLen)
        \cup TestAddressInputs
        \cup {<<"yoko", "hama", "ichi", "to", "zuki", "ku", "naka", "gawa", "1">>,
              <<"shina", "gawa", "ku", "oo", "saki", " ", "1", "-", "2">>}

AddressInit ==
    /\ text \in AddressInputs
    /\ parsed = None
    /\ CheckerIdle
    /\ NormalizerIdle
    /\ GeocoderIdle
    /\ RobotsIdle
    /\ ScraperIdle
    /\ ExportIdle

\* parsed = parser.extract_address_components(text)
ExtractAddressComponents ==
    /\ parsed = None
    /\ parsed' = Returned("extract_address_components",
                          extract_address_components(text))
    /\ UNCHANGED <<text, notParserVars>>

\* parsed = parser.normalize_text(text)
NormalizeText ==
    /\ parsed = None
    /\ parsed' = Returned("normalize_text", normalize_text(text))
    /\ UNCHANGED <<text, notParserVars>>

AddressNext ==
    \/ ExtractAddressComponents
    \/ NormalizeText

AddressSpec == AddressInit /\ [][AddressNext]_vars

(* --------------------- claims on address components -------------------- *)

\* The leading city/ward token of s: its shortest prefix that ends in 市, 区,
\* 町 or 村 after at least one other character (empty when there is none).
LeadingCityToken(s) ==
    LET ends == {q \in 2..Len(s) : s[q] \in {"ichi", "ku", "machi", "mura"}}
    IN  IF ends = {} THEN <<>>
        ELSE SubSeq(s, 1, CHOOSE q \in ends : \A r \in ends : q <= r)

\* s begins with a city/ward token and with no prefecture token: the token
\* holds no 都, 道, 府, 県 and no space.
BeginsWithCity(s) ==
    /\ LeadingCityToken(s) # <<>>
    /\ Chars(LeadingCityToken(s)) \cap {"to", "do", "fu", "ken", " ", "fwsp"} = {}

\* The text of s after its first n characters, up to the first space.
WordAfter(s, n) ==
    LET spaces == {i \in (n + 1)..Len(s) : s[i] = " "}
    IN  IF spaces = {} THEN SubSeq(s, n + 1, Len(s))
        ELSE SubSeq(s, n + 1, (CHOOSE i \in spaces : \A j \in spaces : i <= j) - 1)

IsString(v) == DOMAIN v = 1..Len(v)

\* C20: extract_address_components returns the four components prefecture,
\* city, district and detail, each a string; and for an address that begins
\* with a city/ward token and no prefecture token, prefecture is the empty
\* string, city is that leading token and district is the text that
\* follows it (up to the space that separates the detail).
CityFirstAddressHasNoPrefecture ==
    Called("extract_address_components") =>
        /\ DOMAIN theResult = {"prefecture", "city", "district", "detail"}
        /\ \A component \in DOMAIN theResult : IsString(theResult[component])
        /\ BeginsWithCity(text) =>
            /\ theResult.prefecture = <<>>
            /\ theResult.city = LeadingCityToken(text)
            /\ theResult.district = WordAfter(text, Len(LeadingCityToken(text)))

(* --------------------------- column normalizer ------------------------- *)
(* DataProcessor.normalize_floor_plan and normalize_area over strings, and *)
(* process_dataframe and standardize_column_types over typed batches.      *)
(* More characters:                                                        *)
(*   "sqm" ㎡  "sup2" ²  "hei" 平  "bei" 米  "hou" 方  "ME" メ  "cho" ー       *)
(*   "TO" ト  "RU" ル  "chiku" 築  "nen" 年; "fw." "fw/" "fwF" are the       *)
(*   full-width forms ． ／ Ｆ; "/" "R" "K" "D" "L" "S" "F" "m" and the      *)
(*   lower-case letters stand for themselves.                              *)

\* s.upper(): the lower-case letters are the characters it changes.
upper(s) ==
    LET UpperCase ==
            ("a" :> "A") @@ ("b" :> "B") @@ ("c" :> "C") @@ ("d" :> "D")
            @@ ("e" :> "E") @@ ("f" :> "F") @@ ("g" :> "G") @@ ("h" :> "H")
            @@ ("i" :> "I") @@ ("j" :> "J") @@ ("k" :> "K") @@ ("l" :> "L")
            @@ ("m" :> "M") @@ ("n" :> "N") @@ ("o" :> "O") @@ ("p" :> "P")
            @@ ("q" :> "Q") @@ ("r" :> "R") @@ ("s" :> "S") @@ ("t" :> "T")
            @@ ("u" :> "U") @@ ("v" :> "V") @@ ("w" :> "W") @@ ("x" :> "X")
            @@ ("y" :> "Y") @@ ("z" :> "Z")
    IN  [i \in 1..Len(s) |->
            IF s[i] \in DOMAIN UpperCase THEN UpperCase[s[i]] ELSE s[i]]

\* self.floor_plan_mappings
floor_plan_mappings ==
    (<<"fw1", "fwR">> :> <<"1", "R">>)
    @@ (<<"fw1", "fwK">> :> <<"1", "K">>)
    @@ (<<"fw1", "fwD", "fwK">> :> <<"1", "D", "K">>)
    @@ (<<"fw1", "fwL", "fwD", "fwK">> :> <<"1", "L", "D", "K">>)
    @@ (<<"fw2", "fwK">> :> <<"2", "K">>)
    @@ (<<"fw2", "fwD", "fwK">> :> <<"2", "D", "K">>)
    @@ (<<"fw2", "fwL", "fwD", "fwK">> :> <<"2", "L", "D", "K">>)
    @@ (<<"fw2", "fwL", "fwD", "fwK", "fw+", "fwS">> :> <<"2", "L", "D", "K">>)
    @@ (<<"fw3", "fwD", "fwK">> :> <<"3", "D", "K">>)
    @@ (<<"fw3", "fwL", "fwD", "fwK">> :> <<"3", "L", "D", "K">>)
    @@ (<<"fw4", "fwL", "fwD", "fwK">> :> <<"4", "L", "D", "K">>)
    @@ (<<"1", "L", "D", "K", "+", "S">> :> <<"1", "L", "D", "K">>)
    @@ (<<"2", "L", "D", "K", "+", "S">> :> <<"2", "L", "D", "K">>)
    @@ (<<"3", "L", "D", "K", "+", "S">> :> <<"3", "L", "D", "K">>)
    @@ (<<"1", "S", "L", "D", "K">> :> <<"1", "L", "D", "K">>)
    @@ (<<"2", "S", "L", "D", "K">> :> <<"2", "L", "D", "K">>)
    @@ (<<"3", "S", "L", "D", "K">> :> <<"3", "L", "D", "K">>)

\* s.translate(str.maketrans('０１２３４５６７８９', '0123456789'))
translate(s) ==
    LET HalfWidthDigit ==
            ("fw0" :> "0") @@ ("fw1" :> "1") @@ ("fw2" :> "2")
            @@ ("fw3" :> "3") @@ ("fw4" :> "4") @@ ("fw5" :> "5")
            @@ ("fw6" :> "6") @@ ("fw7" :> "7") @@ ("fw8" :> "8")
            @@ ("fw9" :> "9")
    IN  [i \in 1..Len(s) |->
            IF s[i] \in DOMAIN HalfWidthDigit
            THEN HalfWidthDigit[s[i]] ELSE s[i]]

\* re.sub(r'\+S$|S(?=[LDK])', '', s): the +S that ends s and every S that an
\* L, a D or a K follows are removed, all in one pass over s.
RemoveServiceRoom(s) ==
    LET n == Len(s)
        trailing == IF n >= 2 /\ s[n - 1] = "+" /\ s[n] = "S"
                    THEN {n - 1, n} ELSE {}
        before == {i \in 1..(n - 1) :
                      s[i] = "S" /\ s[i + 1] \in {"L", "D", "K"}}
        kept == (1..n) \ (trailing \cup before)
    IN  [k \in 1..Cardinality(kept) |->
            s[CHOOSE i \in kept : Cardinality({j \in kept : j <= i}) = k]]

\* normalize_floor_plan for a string; None is taken by the caller's cell.
normalize_floor_plan(floor_plan) ==
    IF floor_plan = <<>> THEN <<>>
    ELSE LET stripped == strip(upper(floor_plan))
         IN  IF stripped \in DOMAIN floor_plan_mappings
             THEN floor_plan_mappings[stripped]
             ELSE Remove(RemoveServiceRoom(translate(stripped)), SpaceChars)

\* s.replace(old, '') for a non-empty old.
RECURSIVE replace(_, _)
replace(s, old) ==
    IF s = <<>> THEN <<>>
    ELSE IF StartsWith(s, 1, old)
    THEN replace(SubSeq(s, Len(old) + 1, Len(s)), old)
    ELSE <<s[1]>> \o replace(Tail(s), old)

\* normalize_area: None, or Some(float) with the float as [num, scale].  The
\* units ㎡, m2, m², 平米 and 平方メートル are removed in this order.
normalize_area(area_str) ==
    IF area_str = <<>> \/ area_str = <<"-">> THEN None
    ELSE LET units ==
                 replace(replace(replace(replace(replace(area_str,
                     <<"sqm">>), <<"m", "2">>), <<"m", "sup2">>),
                     <<"hei", "bei">>),
                     <<"hei", "hou", "ME", "cho", "TO", "RU">>)
             match == Search(strip(units), NumberChars, {}, {<<>>})
         IN  IF match = None \/ FloatRaises(match[1]) THEN None
             ELSE Some(float(match[1]))

(* A typed batch is [dtypes, rows]: the dtype of every column ("object",   *)
(* "int64", "float64" or the nullable "Int64") and the rows, each a        *)
(* function from the columns to typed cells.  A typed cell is a record     *)
(* [kind, str, num, scale]: kind "none" (None, NaN or <NA>), "str" (the    *)
(* string str), "int" (the integer num) or "float" (num / 10 ** scale,     *)
(* with no trailing zero in the fraction).  Cells of an object column are  *)
(* strings, None or Python integers.                                       *)

NoCell == [kind |-> "none", str |-> <<>>, num |-> 0, scale |-> 0]

StrCell(s) == [kind |-> "str", str |-> s, num |-> 0, scale |-> 0]

IntCell(n) == [kind |-> "int", str |-> <<>>, num |-> n, scale |-> 0]

RECURSIVE FloatCell(_, _)
FloatCell(num, scale) ==
    IF scale > 0 /\ num % 10 = 0 THEN FloatCell(num \div 10, scale - 1)
    ELSE [kind |-> "float", str |-> <<>>, num |-> num, scale |-> scale]

\* The dtype pandas infers for a column of Python values, and the cells as
\* the column holds them: strings make an object column, integers alone an
\* int64 column, numbers with floats or missing values a float64 column,
\* and missing values alone an object column.
infer(cells) ==
    LET kinds == {cells[i].kind : i \in 1..Len(cells)}
    IN  IF "str" \in kinds \/ kinds \subseteq {"none"}
        THEN [dtype |-> "object", cells |-> cells]
        ELSE IF kinds = {"int"}
        THEN [dtype |-> "int64", cells |-> cells]
        ELSE [dtype |-> "float64",
              cells |-> [i \in 1..Len(cells) |->
                            IF cells[i].kind = "int"
                            THEN FloatCell(cells[i].num, 0)
                            ELSE cells[i]]]

\* frame[column] as a sequence of cells.
Series(frame, column) ==
    [i \in 1..Len(frame.rows) |-> frame.rows[i][column]]

\* frame[column] = typed, for a column the frame has.
SetColumn(frame, column, typed) ==
    [dtypes |-> [frame.dtypes EXCEPT ![column] = typed.dtype],
     rows   |-> [i \in 1..Len(frame.rows) |->
                    [frame.rows[i] EXCEPT ![column] = typed.cells[i]]]]

\* pd.DataFrame(data) for data a function from column names to equally long
\* sequences of Python values, count their length.
TypedFrame(data, count) ==
    [dtypes |-> [c \in DOMAIN data |-> infer(data[c]).dtype],
     rows   |-> [i \in 1..count |->
                    [c \in DOMAIN data |-> infer(data[c]).cells[i]]]]

\* What the normalizer of a column returns for a cell of an object column:
\* an optional string, integer or float as a cell.  normalize_rent and
\* normalize_area take anything that is no string for a failure
\* (AttributeError is caught); the other three are called with strings and
\* None only.
NormalizedCell(column, cell) ==
    LET IntResult(result) ==
            IF result = None THEN NoCell ELSE IntCell(result[1])
        FloatResult(result) ==
            IF result = None THEN NoCell
            ELSE FloatCell(result[1].num, result[1].scale)
    IN  CASE column = "floor_plan" ->
                IF cell.kind = "none" THEN StrCell(<<>>)
                ELSE StrCell(normalize_floor_plan(cell.str))
          [] column = "rent" ->
                IF cell.kind # "str" THEN NoCell
                ELSE IntResult(normalize_rent(cell.str))
          [] column = "area" ->
                IF cell.kind # "str" THEN NoCell
                ELSE FloatResult(normalize_area(cell.str))
          [] column = "station_distance" ->
                IF cell.kind = "none" THEN NoCell
                ELSE IntResult(normalize_station_distance(cell.str))
          [] OTHER ->
                IF cell.kind = "none" THEN NoCell
                ELSE IntResult(normalize_fees(cell.str))

\* df[column] = df[column].apply(normalizer of the column)
NormalizeColumn(frame, column) ==
    SetColumn(frame, column,
              infer([i \in 1..Len(frame.rows) |->
                        NormalizedCell(column, frame.rows[i][column])]))

\* The if statements of process_dataframe for the columns it normalizes
\* only when their dtype is object, in the order given.
RECURSIVE NormalizeObjectColumns(_, _)
NormalizeObjectColumns(frame, columns) ==
    IF columns = <<>> THEN frame
    ELSE LET column == Head(columns)
         IN  NormalizeObjectColumns(
                 IF column \in DOMAIN frame.dtypes
                    /\ frame.dtypes[column] = "object"
                 THEN NormalizeColumn(frame, column)
                 ELSE frame,
                 Tail(columns))

\* process_dataframe: the batch it returns; it works on a copy.
process_dataframe(frame) ==
    NormalizeObjectColumns(
        IF "floor_plan" \in DOMAIN frame.dtypes
        THEN NormalizeColumn(frame, "floor_plan")
        ELSE frame,
        <<"rent", "area", "station_distance",
          "management_fee", "deposit", "key_money">>)

\* type_mappings of standardize_column_types
type_mappings ==
    ("rent" :> "int64") @@ ("management_fee" :> "Int64")
    @@ ("deposit" :> "Int64") @@ ("key_money" :> "Int64")
    @@ ("area" :> "float64") @@ ("floor_number" :> "Int64")
    @@ ("total_floors" :> "Int64") @@ ("building_age" :> "Int64")
    @@ ("construction_year" :> "Int64") @@ ("station_distance" :> "Int64")
    @@ ("latitude" :> "float64") @@ ("longitude" :> "float64")

\* s without surrounding whitespace and without a leading sign.
Unsigned(s) ==
    IF strip(s) # <<>> /\ strip(s)[1] \in {"+", "-"}
    THEN Tail(strip(s)) ELSE strip(s)

\* -1 for a string written with a leading minus sign, else 1.
Sign(s) == IF strip(s) # <<>> /\ strip(s)[1] = "-" THEN -1 ELSE 1

\* int(s) does not raise: s is a sign and digits.
IsIntLiteral(s) ==
    /\ Unsigned(s) # <<>>
    /\ \A i \in 1..Len(Unsigned(s)) : Unsigned(s)[i] \in DigitChars

\* float(s) does not raise, for s written with a sign, digits and points.
IsFloatLiteral(s) ==
    /\ \A i \in 1..Len(Unsigned(s)) : Unsigned(s)[i] \in NumberChars
    /\ ~FloatRaises(Unsigned(s))

\* The cast of a cell to dtype raises.  To an integer: a missing value has
\* no integer (unless the type is nullable), a fraction is not cast to the
\* nullable type, a string must be an integer literal.  To float64: a
\* string must be a float literal.
CastRaises(cell, dtype) ==
    IF dtype = "float64"
    THEN cell.kind = "str" /\ ~IsFloatLiteral(cell.str)
    ELSE CASE cell.kind = "none" -> dtype # "Int64"
           [] cell.kind = "int" -> FALSE
           [] cell.kind = "float" -> dtype = "Int64" /\ cell.scale > 0
           [] OTHER -> ~IsIntLiteral(cell.str)

\* The cell a cast to dtype that does not raise makes of a cell: a float
\* cast to int64 is truncated.
Cast(cell, dtype) ==
    IF dtype = "float64"
    THEN CASE cell.kind = "none" -> NoCell
           [] cell.kind = "int" -> FloatCell(cell.num, 0)
           [] cell.kind = "float" -> cell
           [] OTHER ->
                FloatCell(Sign(cell.str) * float(Unsigned(cell.str)).num,
                          float(Unsigned(cell.str)).scale)
    ELSE CASE cell.kind = "none" -> NoCell
           [] cell.kind = "int" -> cell
           [] cell.kind = "float" -> IntCell(cell.num \div Pow10(cell.scale))
           [] OTHER -> IntCell(Sign(cell.str) * int(Unsigned(cell.str)))

\* One turn of the loop of standardize_column_types for a column the batch
\* has: pd.array(df[col], dtype="Int64") and astype(dtype, errors='ignore')
\* convert the column as a whole; when the cast of any cell raises, pd.array
\* raises and the except clause leaves the column as it was, and astype
\* returns the column as it was.
Coerced(typed, dtype) ==
    IF \E i \in 1..Len(typed.cells) : CastRaises(typed.cells[i], dtype)
    THEN typed
    ELSE [dtype |-> dtype,
          cells |-> [i \in 1..Len(typed.cells) |-> Cast(typed.cells[i], dtype)]]

\* standardize_column_types: the batch it is given, as it leaves it; it
\* assigns the columns of the batch it is given and returns that batch.
standardize_column_types(frame) ==
    LET Column(c) ==
            LET typed == [dtype |-> frame.dtypes[c], cells |-> Series(frame, c)]
            IN  IF c \in DOMAIN type_mappings
                THEN Coerced(typed, type_mappings[c]) ELSE typed
    IN  [dtypes |-> [c \in DOMAIN frame.dtypes |-> Column(c).dtype],
         rows   |-> [i \in 1..Len(frame.rows) |->
                        [c \in DOMAIN frame.dtypes |-> Column(c).cells[i]]]]

(* --------------------- the column normalizer at work ------------------- *)

\* How many calls of the normalizer a caller makes on one batch.
MaxStages == 4

\* test_process_dataframe: floor plans １ＬＤＫ 2LDK+S ３ＤＫ, rents 12.5万円
\* 20万円 125,000円, areas 35.00㎡ 45m2 50平米, distances 徒歩5分 10分 バス15分
\* and management fees 5,000円 なし 1ヶ月.
TestProcessBatch ==
    TypedFrame(
        ("floor_plan" :>
            <<StrCell(<<"fw1", "fwL", "fwD", "fwK">>),
              StrCell(<<"2", "L", "D", "K", "+", "S">>),
              StrCell(<<"fw3", "fwD", "fwK">>)>>)
        @@ ("rent" :>
            <<StrCell(<<"1", "2", ".", "5", "man", "en">>),
              StrCell(<<"2", "0", "man", "en">>),
              StrCell(<<"1", "2", "5", ",", "0", "0", "0", "en">>)>>)
        @@ ("area" :>
            <<StrCell(<<"3", "5", ".", "0", "0", "sqm">>),
              StrCell(<<"4", "5", "m", "2">>),
              StrCell(<<"5", "0", "hei", "bei">>)>>)
        @@ ("station_distance" :>
            <<StrCell(<<"kachi", "ho", "5", "fun">>),
              StrCell(<<"1", "0", "fun">>),
              StrCell(<<"BA", "SU", "1", "5", "fun">>)>>)
        @@ ("management_fee" :>
            <<StrCell(<<"5", ",", "0", "0", "0", "en">>),
              StrCell(<<"na", "shi">>),
              StrCell(<<"1", "KE", "getsu">>)>>),
        3)

\* Batches of two raw listing records: floor plans as listings show them
\* (１ＬＤＫ, 2LDK+S, 1LDK + S, and none), rents (12.5万円 and the dash of no
\* rent) and floor numbers as scraped records hold them (parsed: 3, not
\* parsed: 3階, and none).
ListingBatches ==
    LET FloorPlanCells ==
            {StrCell(<<"fw1", "fwL", "fwD", "fwK">>),
             StrCell(<<"2", "L", "D", "K", "+", "S">>),
             StrCell(<<"1", "L", "D", "K", " ", "+", " ", "S">>),
             NoCell}
        RentCells ==
            {StrCell(<<"1", "2", ".", "5", "man", "en">>), StrCell(<<"-">>)}
        FloorNumberCells == {IntCell(3), StrCell(<<"3", "kai">>), NoCell}
    IN  {TypedFrame(("floor_plan" :> <<f1, f2>>) @@ ("rent" :> <<r1, r2>>)
                    @@ ("floor_number" :> <<n1, n2>>), 2) :
            f1 \in FloorPlanCells, f2 \in FloorPlanCells,
            r1 \in RentCells, r2 \in RentCells,
            n1 \in FloorNumberCells, n2 \in FloorNumberCells}

\* Batches of two Property records as process_and_export builds them: typed
\* fields, the optional ones set or not.
PropertyBatches ==
    {TypedFrame(("floor_plan" :> <<StrCell(<<"1", "L", "D", "K">>),
                                   StrCell(<<"2", "S", "L", "D", "K">>)>>)
                @@ ("rent" :> <<IntCell(125000), IntCell(80000)>>)
                @@ ("area" :> <<FloatCell(355, 1), FloatCell(20, 0)>>)
                @@ ("station_distance" :> <<d1, d2>>)
                @@ ("management_fee" :> <<m1, m2>>)
                @@ ("latitude" :> <<l1, NoCell>>), 2) :
        d1 \in {IntCell(5), NoCell}, d2 \in {IntCell(10), NoCell},
        m1 \in {IntCell(5000), NoCell}, m2 \in {NoCell},
        l1 \in {FloatCell(356, 1), NoCell}}

RawBatches == {TestProcessBatch} \cup ListingBatches \cup PropertyBatches

\* The variables a call of the normalizer leaves alone.
notNormalizerVars ==
    <<checkerVars, parserVars, geocoderVars, robotsVars, scraperVars,
      exportVars>>

NormalizeInit ==
    /\ batch \in RawBatches
    /\ stages = <<>>
    /\ CheckerIdle
    /\ ParserIdle
    /\ GeocoderIdle
    /\ RobotsIdle
    /\ ScraperIdle
    /\ ExportIdle

\* The batch the caller passes to the next call: its batch, or what the call
\* before returned (df = stage(df)).
Current == IF stages = <<>> THEN batch ELSE stages[Len(stages)].returned

\* The caller's batch is the object the next call is given: no call so far
\* has returned a copy.
PassesOwnBatch ==
    \A k \in 1..Len(stages) : stages[k].call = "standardize_column_types"

\* df = processor.process_dataframe(df)
ProcessDataframe ==
    /\ Len(stages) < MaxStages
    /\ stages' = Append(stages, [call     |-> "process_dataframe",
                                 before   |-> Current,
                                 after    |-> Current,
                                 returned |-> process_dataframe(Current)])
    /\ UNCHANGED <<batch, notNormalizerVars>>

\* df = processor.standardize_column_types(df)
StandardizeColumnTypes ==
    /\ Len(stages) < MaxStages
    /\ stages' = Append(stages, [call     |-> "standardize_column_types",
                                 before   |-> Current,
                                 after    |-> standardize_column_types(Current),
                                 returned |-> standardize_column_types(Current)])
    /\ batch' = IF PassesOwnBatch THEN standardize_column_types(Current)
                ELSE batch
    /\ UNCHANGED notNormalizerVars

NormalizeNext ==
    \/ ProcessDataframe
    \/ StandardizeColumnTypes

NormalizeSpec == NormalizeInit /\ [][NormalizeNext]_vars

(* --------------------- claims on the column normalizer ----------------- *)

\* The calls k - 1 and k are one normalize: process_dataframe followed by
\* standardize_column_types.
IsNormalize(k) ==
    /\ k >= 2 /\ k <= Len(stages)
    /\ stages[k - 1].call = "process_dataframe"
    /\ stages[k].call = "standardize_column_types"

\* The floor_plan values of a batch.
FloorPlans(frame) ==
    IF "floor_plan" \in DOMAIN frame.dtypes
    THEN {frame.rows[i]["floor_plan"].str : i \in 1..Len(frame.rows)}
    ELSE {}

\* C12: column normalization is idempotent: when the caller normalizes its
\* raw batch and normalizes the result again (process_dataframe followed by
\* standardize_column_types, twice), the second normalize returns the batch
\* the first returned; and every floor_plan value process_dataframe returns
\* is a fixed point of normalize_floor_plan.
NormalizeIsIdempotent ==
    /\ IsNormalize(2) /\ IsNormalize(4) =>
            stages[4].returned = stages[2].returned
    /\ \A k \in 1..Len(stages) :
            stages[k].call = "process_dataframe" =>
                \A plan \in FloorPlans(stages[k].returned) :
                    normalize_floor_plan(plan) = plan

\* C13: no stage mutates its input batch: after a call of process_dataframe
\* or standardize_column_types has returned, the batch it was given has the
\* rows, cell values and column types it had before the call, and so the
\* caller's own batch is still the batch it first passed in.
NoStageMutatesItsInput ==
    /\ \A k \in 1..Len(stages) : stages[k].after = stages[k].before
    /\ stages # <<>> => batch = stages[1].before

\* The rows of a column whose cell cannot be cast to the declared type.
Uncastable(frame, column) ==
    {i \in 1..Len(frame.rows) :
        CastRaises(frame.rows[i][column], type_mappings[column])}

\* C14: in standardize_column_types, when a single cell of a typed column
\* cannot be cast to the declared type of the column, that cell becomes
\* absent and every other cell of the column is cast to the declared type:
\* the column has the declared type afterwards.
UncastableCellBecomesAbsent ==
    \A k \in 1..Len(stages) :
        stages[k].call = "standardize_column_types" =>
            \A column \in DOMAIN stages[k].before.dtypes \cap DOMAIN type_mappings :
                Cardinality(Uncastable(stages[k].before, column)) = 1 =>
                    /\ stages[k].returned.dtypes[column] = type_mappings[column]
                    /\ \A i \in 1..Len(stages[k].before.rows) :
                        stages[k].returned.rows[i][column] =
                            IF i \in Uncastable(stages[k].before, column)
                            THEN NoCell
                            ELSE Cast(stages[k].before.rows[i][column],
                                      type_mappings[column])

(* ------------------------------ geocoding ------------------------------ *)
(* The geocoding step of DataExporter.process_and_export                   *)
(* (src/src/utils/data_export.py) and Geocoder.batch_geocode               *)
(* (src/src/utils/geocoding.py).  The batch is the sequence of its rows,   *)
(* each [address, latitude, longitude] with cells as the quality checker   *)
(* holds them; an address is a string and coordinates are in tenths of a   *)
(* degree.                                                                 *)

\* How many Property records process_and_export is given.
MaxListings == 2

\* s without the repetitions of its elements: Series.unique().
RECURSIVE unique(_)
unique(s) ==
    IF s = <<>> THEN <<>>
    ELSE LET before == unique(SubSeq(s, 1, Len(s) - 1))
         IN  IF \E i \in 1..Len(before) : before[i] = s[Len(s)]
             THEN before ELSE Append(before, s[Len(s)])

\* df[df['latitude'].isna() & df['address'].notna()]['address'].unique()
AddressesToGeocode(frame) ==
    LET chosen == SelectSeq(frame, LAMBDA row :
                      isna(row.latitude) /\ notna(row.address))
    IN  unique([i \in 1..Len(chosen) |-> chosen[i].address[1]])

\* The three assignments of the loop body with the mask taken without
\* df['latitude'].isna().
ApplyCoordsToAddress(frame, address, coords) ==
    [i \in 1..Len(frame) |->
        IF frame[i].address = P(address)
        THEN [frame[i] EXCEPT !.latitude = P(coords[1]),
                              !.longitude = P(coords[2])]
        ELSE frame[i]]

\* mask = (df['address'] == address) & df['latitude'].isna()
\* df.loc[mask, 'latitude'] = coords[0]; df.loc[mask, 'longitude'] = coords[1]
ApplyCoords(frame, address, coords) ==
    [i \in 1..Len(frame) |->
        IF frame[i].address = P(address) /\ isna(frame[i].latitude)
        THEN [frame[i] EXCEPT !.latitude = P(coords[1]),
                              !.longitude = P(coords[2])]
        ELSE frame[i]]

\* What the geocoding service can answer: a place, or the point (0.0, 0.0).
Coordinates == {<<357, 1398>>, <<0, 0>>}

\* What Geocoder.geocode can return for an address: None for the empty
\* address, and else None (no result, or a failed request) or coordinates.
GeocodeResults(address) ==
    IF address = "" THEN {None}
    ELSE {None} \cup {Some(coords) : coords \in Coordinates}

\* The fields of a Property the step reads: the address (none, empty or
\* given) and the position (none, given, or a longitude alone).
ListingRows ==
    [address   : {NA, P(""), P("Shibuya 1-1"), P("Shinjuku 2-2")},
     latitude  : {NA, P(356)},
     longitude : {NA, P(1397)}]
    \ [address : {NA, P(""), P("Shibuya 1-1"), P("Shinjuku 2-2")},
       latitude : {P(356)}, longitude : {NA}]

\* The variables the geocoding step leaves alone.
notGeocoderVars ==
    <<checkerVars, parserVars, normalizerVars, robotsVars, scraperVars,
      exportVars>>

GeocodeInit ==
    /\ listings \in UNION {[1..n -> ListingRows] : n \in 0..MaxListings}
    /\ apply_geocoding \in BOOLEAN
    /\ addresses_to_geocode = <<>>
    /\ geocoding_results = <<>>
    /\ step = "normalized"
    /\ CheckerIdle
    /\ ParserIdle
    /\ NormalizerIdle
    /\ RobotsIdle
    /\ ScraperIdle
    /\ ExportIdle

\* apply_geocoding and 'address' in df.columns: a batch of no records has
\* no columns.
GeocodingRequested == apply_geocoding /\ listings # <<>>

\* The if statement is false: the step is skipped.
SkipGeocoding ==
    /\ step = "normalized"
    /\ ~GeocodingRequested
    /\ step' = "geocoded"
    /\ UNCHANGED <<listings, apply_geocoding, addresses_to_geocode,
                   geocoding_results, notGeocoderVars>>

\* addresses_to_geocode = ...; the geocoder is called when there are any.
SelectAddresses ==
    /\ step = "normalized"
    /\ GeocodingRequested
    /\ addresses_to_geocode' = AddressesToGeocode(listings)
    /\ step' = IF AddressesToGeocode(listings) = <<>> THEN "geocoded"
               ELSE "geocoding"
    /\ UNCHANGED <<listings, apply_geocoding, geocoding_results,
                   notGeocoderVars>>

\* One turn of the loop of batch_geocode: results[address] = geocode(address)
Geocode ==
    /\ step = "geocoding"
    /\ LET address == addresses_to_geocode[Len(geocoding_results) + 1]
       IN  \E coords \in GeocodeResults(address) :
               geocoding_results' =
                   Append(geocoding_results, <<address, coords>>)
    /\ step' = IF Len(geocoding_results) + 1 = Len(addresses_to_geocode)
               THEN "applying" ELSE "geocoding"
    /\ UNCHANGED <<listings, apply_geocoding, addresses_to_geocode,
                   notGeocoderVars>>

\* One turn of the loop over geocoding_results.items()
ApplyResult ==
    /\ step = "applying"
    /\ LET address == Head(geocoding_results)[1]
           coords == Head(geocoding_results)[2]
       IN  listings' = IF coords # None
                       THEN ApplyCoords(listings, address, coords[1])
                       ELSE listings
    /\ geocoding_results' = Tail(geocoding_results)
    /\ step' = IF Tail(geocoding_results) = <<>> THEN "geocoded"
               ELSE "applying"
    /\ UNCHANGED <<apply_geocoding, addresses_to_geocode, notGeocoderVars>>

GeocodeNext ==
    \/ SkipGeocoding
    \/ SelectAddresses
    \/ Geocode
    \/ ApplyResult

GeocodeSpec == GeocodeInit /\ [][GeocodeNext]_vars

(* -------------------------- claims on geocoding ------------------------ *)

\* Some row has this address and no latitude.
LacksLatitude(frame, address) ==
    \E i \in 1..Len(frame) :
        frame[i].address = P(address) /\ frame[i].latitude = NA

\* C15: with geocoding enabled, the geocoder is asked only about addresses
\* of rows whose latitude is absent and whose address is present; a result
\* is written only into rows whose latitude is still absent when it is
\* applied, so a row that has a latitude keeps its latitude and longitude;
\* and a failed geocode (an absent result) changes no row.
GeocodingFillsOnlyMissing ==
    [][/\ addresses_to_geocode' # addresses_to_geocode =>
            \A k \in 1..Len(addresses_to_geocode') :
                LacksLatitude(listings, addresses_to_geocode'[k])
       /\ Len(geocoding_results') > Len(geocoding_results) =>
            /\ apply_geocoding
            /\ LacksLatitude(listings,
                             geocoding_results'[Len(geocoding_results')][1])
       /\ Len(listings') = Len(listings)
       /\ \A i \in 1..Len(listings) :
            listings'[i] # listings[i] =>
                /\ listings[i].latitude = NA
                /\ listings[i].address # NA
                /\ step = "applying"
                /\ listings[i].address = P(Head(geocoding_results)[1])
                /\ Head(geocoding_results)[2] # None
                /\ listings'[i].latitude = P(Head(geocoding_results)[2][1][1])
                /\ listings'[i].longitude = P(Head(geocoding_results)[2][1][2])
      ]_vars

\* The step is done: a row that had its latitude kept it while a row of the
\* same address was filled in.
GeocodingWitness ==
    /\ step = "geocoded"
    /\ apply_geocoding
    /\ \E i, j \in 1..Len(listings) :
            /\ listings[i].address = listings[j].address
            /\ listings[i].latitude = P(356)
            /\ listings[j].latitude = P(357)

(* ----------------- the text parsers of JapaneseTextParser -------------- *)

\* The position after \s* matched from position i of s.
SkipSpaces(s, i) ==
    LET rest == {j \in i..Len(s) : s[j] \notin SpaceChars}
    IN  IF rest = {} THEN Len(s) + 1
        ELSE CHOOSE j \in rest : \A k \in rest : j <= k

\* The last position of the longest run of characters of chars that starts
\* at position i of s; i - 1 when no such character stands at i.
RunEnd(s, i, chars) ==
    LET stop == {j \in i..Len(s) : s[j] \notin chars}
    IN  IF stop = {} THEN Len(s)
        ELSE (CHOOSE j \in stop : \A k \in stop : j <= k) - 1

\* re.search('[chars]+', s): None, or Some of the leftmost longest run.
FirstRun(s, chars) ==
    LET hits == {i \in 1..Len(s) : s[i] \in chars}
    IN  IF hits = {} THEN None
        ELSE LET p == CHOOSE i \in hits : \A j \in hits : i <= j
             IN  Some(SubSeq(s, p, RunEnd(s, p, chars)))

\* JapaneseTextParser.parse_rent: every exception, the ValueError of float()
\* and the OverflowError of int() included, is caught and gives None.
parse_rent(rent_text) ==
    IF rent_text = <<>> THEN None
    ELSE LET t == strip(Remove(normalize_text(rent_text), {"en", "yen", ","}))
             match == IF "man" \in {t[i] : i \in 1..Len(t)}
                      THEN Search(t, NumberChars, SpaceChars, {<<"man">>})
                      ELSE None
             digits == FirstRun(t, DigitChars \cup {","})
         IN  IF match # None
             THEN IF FloatRaises(match[1]) \/ IsInfinite(match[1], 4)
                  THEN None
                  ELSE Some(TimesTenThousand(match[1]))
             ELSE IF digits # None THEN Some(int(digits[1]))
             ELSE None

\* JapaneseTextParser.parse_area
parse_area(area_text) ==
    IF area_text = <<>> THEN None
    ELSE LET t == strip(Remove(normalize_text(area_text),
                               {"sqm", "m", "sup2", "hei", "bei"}))
             match == FirstRun(t, NumberChars)
         IN  IF match # None /\ ~FloatRaises(match[1])
             THEN Some(float(match[1]))
             ELSE None

\* JapaneseTextParser.parse_floor_plan
parse_floor_plan(layout_text) ==
    IF layout_text = <<>> THEN <<>>
    ELSE Remove(upper(normalize_text(layout_text)), SpaceChars)

\* JapaneseTextParser.parse_building_age: 築\s*(\d+)\s*年, and when that
\* does not match, (\d+)\s*年 in a text that has 築 somewhere.
parse_building_age(age_text) ==
    IF age_text = <<>> THEN None
    ELSE LET t == normalize_text(age_text)
             Group(p) ==
                LET a == SkipSpaces(t, p + 1)
                    e == RunEnd(t, a, DigitChars)
                    b == SkipSpaces(t, e + 1)
                IN  IF e >= a /\ b <= Len(t) /\ t[b] = "nen"
                    THEN Some(SubSeq(t, a, e)) ELSE None
             starts == {p \in 1..Len(t) : t[p] = "chiku" /\ Group(p) # None}
             match == Search(t, DigitChars, SpaceChars, {<<"nen">>})
         IN  IF starts # {}
             THEN Some(int(Group(CHOOSE p \in starts :
                                    \A q \in starts : p <= q)[1]))
             ELSE IF match # None /\ "chiku" \in {t[i] : i \in 1..Len(t)}
             THEN Some(int(match[1]))
             ELSE None

\* JapaneseTextParser.parse_floor_info: the pair (floor, total floors), from
\* (\d+)\s*階?\s*/\s*(\d+)\s*階? or, when that does not match, the floor
\* alone from (\d+)\s*[階F].
parse_floor_info(floor_text) ==
    IF floor_text = <<>> THEN <<None, None>>
    ELSE LET t == normalize_text(floor_text)
             Groups(p) ==
                LET e == RunEnd(t, p, DigitChars)
                    a == SkipSpaces(t, e + 1)
                    b == SkipSpaces(t, IF a <= Len(t) /\ t[a] = "kai"
                                       THEN a + 1 ELSE a)
                    c == SkipSpaces(t, b + 1)
                    f == RunEnd(t, c, DigitChars)
                IN  IF b <= Len(t) /\ t[b] = "/" /\ f >= c
                    THEN Some(<<SubSeq(t, p, e), SubSeq(t, c, f)>>) ELSE None
             starts == {p \in 1..Len(t) :
                            t[p] \in DigitChars /\ Groups(p) # None}
             match == Search(t, DigitChars, SpaceChars, {<<"kai">>, <<"F">>})
         IN  IF starts # {}
             THEN LET groups == Groups(CHOOSE p \in starts :
                                           \A q \in starts : p <= q)[1]
                  IN  <<Some(int(groups[1])), Some(int(groups[2]))>>
             ELSE IF match # None THEN <<Some(int(match[1])), None>>
             ELSE <<None, None>>

(* --------------------- every text parser at work ----------------------- *)

\* A run of 309 nines, a rent beyond the largest double, alone and as a
\* count of 万 (305 nines).
LongDigitRuns ==
    {[i \in 1..309 |-> "9"],
     [i \in 1..306 |-> IF i = 306 THEN "man" ELSE "9"]}

\* The strings the parsers are called on: every string of at most
\* MaxTextLen characters over the characters numbers are written with (a
\* digit, the decimal point, 万, ㎡) and over those of floors and building
\* ages (a digit, 階, /, 築, 年), malformed numerics such as '.', '1.1.1'
\* and '..万' among them; strings of the tests (25.5㎡, 築年数: 15年,
\* '3 階 / 5 階建', 3F, １ＬＤＫ, 新築, 東京都渋谷区); and the long runs.
ParseInputs ==
    Strings({"1", ".", "man", "sqm"}, MaxTextLen)
        \cup Strings({"5", "kai", "/", "chiku", "nen"}, MaxTextLen)
        \cup {<<"2", "5", ".", "5", "sqm">>,
              <<"chiku", "nen", "suu", ":", " ", "1", "5", "nen">>,
              <<"3", " ", "kai", " ", "/", " ", "5", " ", "kai", "ken">>,
              <<"3", "F">>,
              <<"fw1", "fwL", "fwD", "fwK">>,
              <<"shin", "chiku">>,
              <<"higashi", "kyo", "to", "shibu", "ya", "ku">>}
        \cup LongDigitRuns

ParseInit ==
    /\ text \in ParseInputs
    /\ parsed = None
    /\ CheckerIdle
    /\ NormalizerIdle
    /\ GeocoderIdle
    /\ RobotsIdle
    /\ ScraperIdle
    /\ ExportIdle

\* The numbers of the text fit the 32-bit integers of TLC.  A text whose
\* numbers do not is given only to the calls that end with an exception on
\* it and compute no value: normalize_rent and normalize_fees.
Countable(s) == s \notin LongDigitRuns

\* parsed = processor.normalize_area(text)
NormalizeArea ==
    /\ parsed = None
    /\ Countable(text)
    /\ parsed' = Returned("normalize_area", normalize_area(text))
    /\ UNCHANGED <<text, notParserVars>>

\* parsed = processor.normalize_floor_plan(text)
NormalizeFloorPlan ==
    /\ parsed = None
    /\ Countable(text)
    /\ parsed' = Returned("normalize_floor_plan", normalize_floor_plan(text))
    /\ UNCHANGED <<text, notParserVars>>

\* parsed = processor.normalize_station_distance(text), or
\* parsed = parser.parse_station_distance(text)
StationDistance ==
    /\ Countable(text)
    /\ NormalizeStationDistance \/ ParseStationDistance

\* parsed = parser.parse_rent(text)
ParseRent ==
    /\ parsed = None
    /\ Countable(text)
    /\ parsed' = Returned("parse_rent", parse_rent(text))
    /\ UNCHANGED <<text, notParserVars>>

\* parsed = parser.parse_area(text)
ParseArea ==
    /\ parsed = None
    /\ Countable(text)
    /\ parsed' = Returned("parse_area", parse_area(text))
    /\ UNCHANGED <<text, notParserVars>>

\* parsed = parser.parse_floor_plan(text)
ParseFloorPlan ==
    /\ parsed = None
    /\ Countable(text)
    /\ parsed' = Returned("parse_floor_plan", parse_floor_plan(text))
    /\ UNCHANGED <<text, notParserVars>>

\* parsed = parser.parse_building_age(text)
ParseBuildingAge ==
    /\ parsed = None
    /\ Countable(text)
    /\ parsed' = Returned("parse_building_age", parse_building_age(text))
    /\ UNCHANGED <<text, notParserVars>>

\* parsed = parser.parse_floor_info(text)
ParseFloorInfo ==
    /\ parsed = None
    /\ Countable(text)
    /\ parsed' = Returned("parse_floor_info", parse_floor_info(text))
    /\ UNCHANGED <<text, notParserVars>>

\* parsed = parser.extract_address_components(text)
ParseAddress ==
    /\ Countable(text)
    /\ ExtractAddressComponents

ParseNext ==
    \/ NormalizeRent
    \/ NormalizeFees
    \/ NormalizeArea
    \/ NormalizeFloorPlan
    \/ StationDistance
    \/ ParseRent
    \/ ParseArea
    \/ ParseFloorPlan
    \/ ParseBuildingAge
    \/ ParseFloorInfo
    \/ ParseAddress

ParseSpec == ParseInit /\ [][ParseNext]_vars

(* ---------------------- claim on the parsers' totality ----------------- *)

\* The call ended with an exception it did not catch.  (The address parser
\* returns a dict on every path.)
Raised ==
    /\ parsed # None
    /\ parsed[1].call # "extract_address_components"
    /\ theResult = Raise("OverflowError")

\* C21: every text-parsing function is total: for every input string, and
\* for absent input, the call returns a value or the absent marker and
\* never raises.
ParsersNeverRaise == ~Raised

(* -------------------- claims on batches lacking columns ---------------- *)

\* The required columns the batch does not have.
AbsentRequired == RequiredColumnSet \ df.columns

\* The entries of a full report.
ReportSections ==
    {"total_records", "validation_errors", "missing_values", "outliers",
     "duplicates", "summary", "quality_score"}

\* C22: check_data_quality of a batch that lacks required columns still
\* returns a full report (missing values, outliers, duplicates, summary and
\* quality score), and validation_errors.missing_columns names exactly the
\* absent required columns, each once; validation_errors has no such entry
\* when every required column exists.
MissingColumnsAreReported ==
    report # None =>
        LET errors == report[1].validation_errors
        IN  /\ DOMAIN report[1] = ReportSections
            /\ AbsentRequired = {} => DOMAIN errors = {}
            /\ AbsentRequired # {} =>
                /\ DOMAIN errors = {"missing_columns"}
                /\ {errors.missing_columns[i] :
                        i \in 1..Len(errors.missing_columns)} = AbsentRequired
                /\ Len(errors.missing_columns) = Cardinality(AbsentRequired)

\* A batch that has some required columns and lacks others was checked.
MissingColumnsWitness ==
    /\ report # None
    /\ AbsentRequired # {}
    /\ RequiredColumnSet \cap df.columns # {}
    /\ "missing_columns" \in DOMAIN report[1].validation_errors
    /\ edits > 0

(* ----------------------------- RobotsChecker --------------------------- *)
(* A URL is [scheme, netloc, path], the path a sequence of segments.  A    *)
(* robots.txt is held as RobotFileParser.parse leaves it for the user      *)
(* agent: its Allow/Disallow lines in order, each with the path it names,  *)
(* the Crawl-delay and the Request-rate.  What requests.get gives is       *)
(* [raised, status, text]: an exception, or a response.                    *)

\* How many calls are made on one checker.
MaxCalls == 3

\* urlparse(url) raises ValueError ('Invalid IPv6 URL' for http://[).
UrlparseRaises(url) == url.netloc = "["

\* f"{parsed.scheme}://{parsed.netloc}"
BaseUrl(url) == <<url.scheme, url.netloc>>

\* The URLs of the tests (https://example.com/chintai/tokyo/,
\* https://example.com/admin/, https://other.com/page/), the second with
\* the other scheme, and a URL urlparse does not accept.
Urls ==
    {[scheme |-> "https", netloc |-> "example.com", path |-> <<"chintai", "tokyo">>],
     [scheme |-> "https", netloc |-> "example.com", path |-> <<"admin">>],
     [scheme |-> "http", netloc |-> "example.com", path |-> <<"admin">>],
     [scheme |-> "https", netloc |-> "other.com", path |-> <<"page">>],
     [scheme |-> "http", netloc |-> "[", path |-> <<>>]}

\* The robots.txt files of the tests: 'Allow: /chintai/, Disallow: /admin/'
\* and 'Crawl-delay: 2, Allow: /'; and 'Request-rate: 1/5, Disallow: /'.
RobotsFiles ==
    {[rules |-> <<[allow |-> TRUE, path |-> <<"chintai">>],
                  [allow |-> FALSE, path |-> <<"admin">>]>>,
      delay |-> None, rate |-> None],
     [rules |-> <<[allow |-> TRUE, path |-> <<>>]>>,
      delay |-> Some(2), rate |-> None],
     [rules |-> <<[allow |-> FALSE, path |-> <<>>]>>,
      delay |-> None, rate |-> Some(<<1, 5>>)]}

\* What requests.get(robots_url, ...) may give: an exception, a 404 or 500
\* response, a 200 response with a robots.txt.
Responses ==
    {[raised |-> TRUE, status |-> 0, text |-> None]}
        \cup {[raised |-> FALSE, status |-> s, text |-> None] : s \in {404, 500}}
        \cup {[raised |-> FALSE, status |-> 200, text |-> Some(f)] :
                f \in RobotsFiles}

\* _load_robots_txt with nothing stored for a domain whose robots.txt was
\* not loaded.
load_robots_txt_success_only(cache, base_url, response) ==
    IF ~response.raised /\ response.status = 200
    THEN [b \in DOMAIN cache \cup {base_url} |->
            IF b = base_url THEN response.text ELSE cache[b]]
    ELSE cache

\* _load_robots_txt: self.parsers after the call, when requests.get gave
\* response.  The parser is stored for a 200 response and None otherwise.
load_robots_txt(cache, base_url, response) ==
    [b \in DOMAIN cache \cup {base_url} |->
        IF b # base_url THEN cache[b]
        ELSE IF ~response.raised /\ response.status = 200
        THEN response.text
        ELSE None]

\* RobotFileParser.can_fetch(user_agent, url): the first line whose path
\* begins the path of the URL decides; a URL no line names is allowed.
RobotsAllow(file, path) ==
    LET hits == {i \in 1..Len(file.rules) :
                    LET p == file.rules[i].path
                    IN  Len(p) <= Len(path) /\ SubSeq(path, 1, Len(p)) = p}
    IN  hits = {} \/ file.rules[CHOOSE i \in hits : \A j \in hits : i <= j].allow

\* The domain of the URL has a parser in the cache.
HasParser(cache, url) ==
    BaseUrl(url) \in DOMAIN cache /\ cache[BaseUrl(url)] # None

\* can_fetch returning False where it has no parser.
can_fetch_fails_closed(cache, url) ==
    HasParser(cache, url) /\ RobotsAllow(cache[BaseUrl(url)][1], url.path)

\* can_fetch, after the cache was checked: what it returns.
can_fetch(cache, url) ==
    IF HasParser(cache, url)
    THEN RobotsAllow(cache[BaseUrl(url)][1], url.path)
    ELSE TRUE

\* get_crawl_delay, after the cache was checked: float(delay) if delay.
get_crawl_delay(cache, url) ==
    IF HasParser(cache, url) /\ cache[BaseUrl(url)][1].delay \notin {None, Some(0)}
    THEN cache[BaseUrl(url)][1].delay
    ELSE None

\* get_request_rate, after the cache was checked.
get_request_rate(cache, url) ==
    IF HasParser(cache, url) THEN cache[BaseUrl(url)][1].rate ELSE None

notRobotsVars ==
    <<checkerVars, parserVars, normalizerVars, geocoderVars, scraperVars,
      exportVars>>

\* checker = RobotsChecker(user_agent)
RobotsInit ==
    /\ parsers = <<>>
    /\ fetched = <<>>
    /\ answer = None
    /\ calls = 0
    /\ CheckerIdle
    /\ ParserIdle
    /\ NormalizerIdle
    /\ GeocoderIdle
    /\ ScraperIdle
    /\ ExportIdle

\* if base_url not in self.parsers: self._load_robots_txt(base_url)
CheckCache(url) ==
    IF BaseUrl(url) \in DOMAIN parsers
    THEN UNCHANGED <<parsers, fetched>>
    ELSE \E response \in Responses :
            /\ parsers' = load_robots_txt(parsers, BaseUrl(url), response)
            /\ fetched' = Append(fetched, [base_url |-> BaseUrl(url),
                                           response |-> response])

\* answer = checker.can_fetch(url)
CanFetch(url) ==
    /\ calls < MaxCalls
    /\ calls' = calls + 1
    /\ IF UrlparseRaises(url)
       THEN /\ UNCHANGED <<parsers, fetched>>
            /\ answer' = Some([call |-> "can_fetch", url |-> url,
                               result |-> TRUE])
       ELSE /\ CheckCache(url)
            /\ answer' = Some([call |-> "can_fetch", url |-> url,
                               result |-> can_fetch(parsers', url)])
    /\ UNCHANGED notRobotsVars

\* answer = checker.get_crawl_delay(url)
GetCrawlDelay(url) ==
    /\ calls < MaxCalls
    /\ calls' = calls + 1
    /\ IF UrlparseRaises(url)
       THEN /\ UNCHANGED <<parsers, fetched>>
            /\ answer' = Some([call |-> "get_crawl_delay", url |-> url,
                               result |-> None])
       ELSE /\ CheckCache(url)
            /\ answer' = Some([call |-> "get_crawl_delay", url |-> url,
                               result |-> get_crawl_delay(parsers', url)])
    /\ UNCHANGED notRobotsVars

\* answer = checker.get_request_rate(url)
GetRequestRate(url) ==
    /\ calls < MaxCalls
    /\ calls' = calls + 1
    /\ IF UrlparseRaises(url)
       THEN /\ UNCHANGED <<parsers, fetched>>
            /\ answer' = Some([call |-> "get_request_rate", url |-> url,
                               result |-> None])
       ELSE /\ CheckCache(url)
            /\ answer' = Some([call |-> "get_request_rate", url |-> url,
                               result |-> get_request_rate(parsers', url)])
    /\ UNCHANGED notRobotsVars

RobotsNext ==
    \/ \E url \in Urls : CanFetch(url)
    \/ \E url \in Urls : GetCrawlDelay(url)
    \/ \E url \in Urls : GetRequestRate(url)

RobotsSpec == RobotsInit /\ [][RobotsNext]_vars

(* ------------------------- claims on RobotsChecker --------------------- *)

\* The requests made for the robots.txt of base_url.
FetchesOf(log, base_url) ==
    {i \in 1..Len(log) : log[i].base_url = base_url}

\* The request for base_url did not give a robots.txt: it raised or its
\* status was not 200.
FetchFailed(base_url) ==
    \E i \in FetchesOf(fetched, base_url) :
        fetched[i].response.raised \/ fetched[i].response.status # 200

\* C23: over any sequence of can_fetch, get_crawl_delay and
\* get_request_rate calls on one checker, robots.txt is requested at most
\* once for each scheme and host, whether the request gave a robots.txt,
\* a non-200 status or an exception; the first call for a scheme and host
\* makes exactly one request.
RobotsFetchedOncePerDomain ==
    [][calls' = calls + 1 /\ ~UrlparseRaises(answer'[1].url) =>
        LET base_url == BaseUrl(answer'[1].url)
        IN  /\ \A u \in Urls :
                Cardinality(FetchesOf(fetched', BaseUrl(u))) <= 1
            /\ Cardinality(FetchesOf(fetched', base_url)) = 1
            /\ FetchesOf(fetched, base_url) = {} => Len(fetched') = Len(fetched) + 1
            /\ FetchesOf(fetched, base_url) # {} => fetched' = fetched]_vars

\* The third call is for the domain of the first, whose request failed,
\* after a call for another domain: two requests were made.
RobotsCacheWitness ==
    /\ calls >= 3
    /\ Len(fetched) = 2
    /\ FetchFailed(fetched[1].base_url)
    /\ BaseUrl(answer[1].url) = fetched[1].base_url

\* C24: can_fetch fails open: for a domain whose robots.txt request gave a
\* non-200 status or raised, it returns True for every URL, on the first
\* call and on every later call; it returns False only when the robots.txt
\* loaded for the domain disallows the URL.
CanFetchFailsOpen ==
    (answer # None /\ answer[1].call = "can_fetch") =>
        LET url == answer[1].url
        IN  /\ (~UrlparseRaises(url) /\ FetchFailed(BaseUrl(url)))
                => answer[1].result = TRUE
            /\ answer[1].result = FALSE =>
                /\ ~UrlparseRaises(url)
                /\ \E i \in FetchesOf(fetched, BaseUrl(url)) :
                    /\ ~fetched[i].response.raised
                    /\ fetched[i].response.status = 200
                    /\ ~RobotsAllow(fetched[i].response.text[1], url.path)

\* can_fetch answered from the cache for a domain whose robots.txt request
\* had failed in an earlier call.
CanFetchFailsOpenWitness ==
    /\ answer # None /\ answer[1].call = "can_fetch"
    /\ calls = 2
    /\ Len(fetched) = 1
    /\ FetchFailed(BaseUrl(answer[1].url))
    /\ answer[1].result = TRUE

(* ----------------------- claims on repeated repair --------------------- *)

\* C25: fix_common_issues is idempotent: repairing the repaired batch
\* again returns exactly its rows; in particular the repaired batch has no
\* two rows that are equal in every column.
FixIsIdempotent ==
    fixed # None =>
        /\ fix_common_issues(fixed[1]).rows = fixed[1].rows
        /\ \A i, j \in 1..len(fixed[1]) :
                fixed[1].rows[i] = fixed[1].rows[j] => i = j

\* C26: repair and detection agree on the ranges: check_data_quality of
\* the repaired batch reports no outlier and no missing value in a required
\* column the batch has, so the outlier and the required-missing deductions
\* of its quality score are zero.
RepairedBatchIsClean ==
    fixed # None =>
        LET recheck == check_data_quality(fixed[1])
        IN  /\ DOMAIN recheck.outliers = {}
            /\ \A c \in RequiredColumnSet \cap fixed[1].columns :
                    c \notin DOMAIN recheck.missing_values
            /\ OutlierPenalty(recheck.outliers) = 0
            /\ MissingPenalty(recheck.missing_values) = 0

\* A batch with outliers and with a missing required value was repaired and
\* rows remain.
RepairedBatchWitness ==
    /\ fixed # None
    /\ len(fixed[1]) > 0
    /\ DOMAIN CheckOutliers(df) # {}
    /\ \E c \in RequiredColumnSet \cap df.columns :
            c \in DOMAIN CheckMissingValues(df)

(* ---------------------- claims on the deductions ----------------------- *)

\* C28: the outlier deduction of the quality score never exceeds 12 points:
\* only the six rule-table columns can appear in the outlier report, so the
\* deduction is two points for each of at most six columns and the cap of 20
\* points is never the binding limit.
OutlierDeductionAtMostTwelve ==
    report # None =>
        LET outliers == report[1].outliers
        IN  /\ DOMAIN outliers \subseteq RuleColumnSet
            /\ Cardinality(RuleColumnSet) = 6
            /\ OutlierPenalty(outliers) = 200 * Cardinality(DOMAIN outliers)
            /\ OutlierPenalty(outliers) <= 1200

\* Every rule-table column has outliers: the deduction is 12 points.
OutlierDeductionWitness ==
    /\ report # None
    /\ DOMAIN report[1].outliers = RuleColumnSet
    /\ OutlierPenalty(report[1].outliers) = 1200

\* The batch has no missing cell, no value out of range and no repeated
\* property_id or url.
CleanCells ==
    /\ \A k \in 1..len(df) : \A c \in df.columns : notna(df.rows[k][c])
    /\ \A c \in RuleColumnSet \cap df.columns : ColumnOutliers(df, c) = <<>>
    /\ \A c \in {"property_id", "url"} \cap df.columns :
            \A k \in 1..len(df) : ~Duplicated(df, {c}, k)

\* C29: a required column that the batch's schema lacks costs no points: a
\* batch that lacks required columns but has no missing cell in the columns
\* it has, no outlier and no duplicate property_id or url scores 100, with
\* validation_errors.missing_columns not empty.
AbsentColumnCostsNothing ==
    (report # None /\ AbsentRequired # {} /\ CleanCells) =>
        /\ report[1].quality_score = 10000
        /\ "missing_columns" \in DOMAIN report[1].validation_errors
        /\ report[1].validation_errors.missing_columns # <<>>

\* A batch of clean cells that lacks required columns was checked.
AbsentColumnWitness ==
    /\ report # None
    /\ AbsentRequired # {}
    /\ CleanCells
    /\ len(df) > 0

(* ------------------------- BaseScraper.scrape_area --------------------- *)

\* The largest max_pages argument.
MaxPages == 3

\* What search_properties may return: None, or a PropertySearchResult with
\* its properties, none, one or two.
SearchResults ==
    {None} \cup {Some([properties |-> p]) :
                    p \in {<<>>, <<"a">>, <<"b">>, <<"a", "b">>}}

\* not result where only an absent result ends the loop.
StopsOnAbsentOnly(result) == result = None

\* not result or not result.properties
Stops(result) == result = None \/ result[1].properties = <<>>

notScraperVars ==
    <<checkerVars, parserVars, normalizerVars, geocoderVars, robotsVars,
      exportVars>>

\* scrape_area(area, property_type, max_pages) is called: all_properties is
\* empty and the loop is at its first page.
ScrapeInit ==
    /\ max_pages \in 0..MaxPages
    /\ page = 1
    /\ results = <<>>
    /\ all_properties = <<>>
    /\ scrape_pc = "loop"
    /\ CheckerIdle
    /\ ParserIdle
    /\ NormalizerIdle
    /\ GeocoderIdle
    /\ RobotsIdle
    /\ ExportIdle

\* One pass of the loop body: the page is searched; the loop is left when
\* the result stops it, and else the properties are collected and, after
\* the delay, the loop goes to the next page.
ScrapePage ==
    /\ scrape_pc = "loop"
    /\ page <= max_pages
    /\ \E result \in SearchResults :
        /\ results' = Append(results, [page |-> page, result |-> result])
        /\ IF Stops(result)
           THEN /\ scrape_pc' = "done"
                /\ UNCHANGED <<page, all_properties>>
           ELSE /\ all_properties' = all_properties \o result[1].properties
                /\ page' = page + 1
                /\ scrape_pc' = "loop"
    /\ UNCHANGED <<max_pages, notScraperVars>>

\* range(1, max_pages + 1) is exhausted: return all_properties.
ScrapeReturn ==
    /\ scrape_pc = "loop"
    /\ page > max_pages
    /\ scrape_pc' = "done"
    /\ UNCHANGED <<max_pages, page, results, all_properties, notScraperVars>>

ScrapeNext ==
    \/ ScrapePage
    \/ ScrapeReturn

ScrapeSpec == ScrapeInit /\ [][ScrapeNext]_vars

\* Every call of search_properties returns and the delay between pages
\* ends, so the loop goes on until it is left.
ScrapeFairSpec == ScrapeSpec /\ WF_vars(ScrapeNext)

(* --------------------------- claim on scrape_area ---------------------- *)

\* The search result is absent or has no properties.
NoProperties(result) == result = None \/ result[1].properties = <<>>

\* The properties of the first n search results, in page order.
RECURSIVE PropertiesOf(_, _)
PropertiesOf(log, n) ==
    IF n = 0 THEN <<>>
    ELSE PropertiesOf(log, n - 1)
            \o (IF log[n].result = None THEN <<>>
                ELSE log[n].result[1].properties)

\* The pages are requested in increasing order from page 1, at most
\* max_pages of them, none after a page without properties; the value
\* returned is the properties of the pages before that page, in page order.
ScrapeInOrder ==
    /\ Len(results) <= max_pages
    /\ \A i \in 1..Len(results) : results[i].page = i
    /\ \A i \in 1..(Len(results) - 1) : ~NoProperties(results[i].result)
    /\ scrape_pc = "done" =>
        /\ \/ Len(results) = max_pages
           \/ results # <<>> /\ NoProperties(results[Len(results)].result)
        /\ all_properties =
            PropertiesOf(results,
                IF results # <<>> /\ NoProperties(results[Len(results)].result)
                THEN Len(results) - 1 ELSE Len(results))

\* C30: scrape_area always terminates and requests result pages in
\* increasing order starting at page 1: at most max_pages pages, none after
\* the first page whose search result is absent or has no properties; it
\* returns the concatenation, in page order, of the properties of the pages
\* requested before that stop.
ScrapeAreaTerminatesInOrder ==
    []ScrapeInOrder /\ <>(scrape_pc = "done")

\* The call returned the properties of two pages after the third page had
\* no properties.
ScrapeWitness ==
    /\ scrape_pc = "done"
    /\ Len(results) = 3
    /\ results[3].result # None
    /\ NoProperties(results[3].result)
    /\ Len(all_properties) >= 3

(* --------------- the quality stage of process_and_export --------------- *)

\* export_format: the three formats and one the exporter does not support.
ExportFormats == {"csv", "json", "parquet", "xml"}

\* The returned dictionary with the report of a second check, made on the
\* repaired batch.
ResultOfRecheck(quality, frame) ==
    [quality_report    |-> check_data_quality(frame),
     records_processed |-> len(frame),
     quality_score     |-> check_data_quality(frame).quality_score]

\* The dictionary process_and_export returns (its entries on the batch and
\* its quality), for the report and the local df at the return statement.
Result(quality, frame) ==
    [quality_report    |-> quality,
     records_processed |-> len(frame),
     quality_score     |-> quality.quality_score]

notExportVars ==
    <<checkerVars, parserVars, normalizerVars, geocoderVars, robotsVars,
      scraperVars>>

\* process_and_export has normalized and geocoded the batch: the local df is
\* the batch at the line 'Run quality checks'.
ExportInit ==
    /\ export_format \in ExportFormats
    /\ export_df \in Scenarios
    /\ quality_report = None
    /\ written = None
    /\ export_result = None
    /\ export_pc = "normalized"
    /\ CheckerIdle
    /\ ParserIdle
    /\ NormalizerIdle
    /\ GeocoderIdle
    /\ RobotsIdle
    /\ ScraperIdle

\* quality_report = self.quality_checker.check_data_quality(df)
RunQualityChecks ==
    /\ export_pc = "normalized"
    /\ quality_report' = Some(check_data_quality(export_df))
    /\ export_pc' = "checked"
    /\ UNCHANGED <<export_format, export_df, written, export_result,
                   notExportVars>>

\* df = self.quality_checker.fix_common_issues(df)
FixIssues ==
    /\ export_pc = "checked"
    /\ export_df' = fix_common_issues(export_df)
    /\ export_pc' = "fixed"
    /\ UNCHANGED <<export_format, quality_report, written, export_result,
                   notExportVars>>

\* The export of df in the format asked for; ValueError for another format.
ExportFile ==
    /\ export_pc = "fixed"
    /\ IF export_format \in {"csv", "json", "parquet"}
       THEN written' = Some(export_df.rows) /\ export_pc' = "exported"
       ELSE written' = written /\ export_pc' = "raised"
    /\ UNCHANGED <<export_format, export_df, quality_report, export_result,
                   notExportVars>>

\* The quality report is saved and the dictionary returned.
ReturnResult ==
    /\ export_pc = "exported"
    /\ export_result' = Some(Result(quality_report[1], export_df))
    /\ export_pc' = "returned"
    /\ UNCHANGED <<export_format, export_df, quality_report, written,
                   notExportVars>>

ExportNext ==
    \/ RunQualityChecks
    \/ FixIssues
    \/ ExportFile
    \/ ReturnResult

ExportSpec == ExportInit /\ [][ExportNext]_vars

(* ------------------------ claim on process_and_export ------------------ *)

\* C27: in process_and_export the quality report is computed on the
\* normalized batch before the repair and is not computed again: the
\* returned quality_report and quality_score are those of the unrepaired
\* batch, report.total_records is at least the returned records_processed,
\* and the rows exported are those of the repaired batch.
ReportDescribesUnrepairedBatch ==
    [][/\ export_pc = "normalized" =>
            /\ quality_report' = Some(check_data_quality(export_df))
            /\ export_df' = export_df
       /\ export_pc # "normalized" => quality_report' = quality_report
       /\ export_pc = "checked" => export_df' = fix_common_issues(export_df)
       /\ export_pc \notin {"normalized", "checked"} => export_df' = export_df
       /\ export_pc' = "exported" => written' = Some(export_df.rows)
       /\ export_pc' = "returned" =>
            /\ written' = written
            /\ export_result'[1].quality_report = quality_report[1]
            /\ export_result'[1].quality_score = quality_report[1].quality_score
            /\ export_result'[1].records_processed = len(export_df)
            /\ quality_report[1].total_records
                    >= export_result'[1].records_processed]_vars

\* The call returned for a batch the repair took rows from and whose report
\* lists outliers: the report is not that of the exported batch.
UnrepairedReportWitness ==
    /\ export_pc = "returned"
    /\ export_result[1].quality_report.total_records
            > export_result[1].records_processed
    /\ DOMAIN export_result[1].quality_report.outliers # {}
    /\ Len(written[1]) = export_result[1].records_processed
    /\ Len(written[1]) > 0

====
